---- MODULE Spec2Model ----
(***************************************************************************)
(* A model of rpm (Rust Password Manager): the cipher layer, the encrypted *)
(* index ("def" file), the per-secret record files, the per-directory      *)
(* credential record (.rpm_config) and the terminal session that drives    *)
(* them.                                                                   *)
(*                                                                         *)
(* Idealisations of external libraries (stated once, used everywhere):     *)
(*  - AES-256-GCM is an ideal AEAD: a ciphertext opens only under the key  *)
(*    and nonce it was sealed with, and only if its bytes are unchanged.   *)
(*  - Argon2 password hashing verifies exactly the password it hashed,     *)
(*    and key derivation is an injective function of (password, salt).     *)
(*  - Uuid::new_v4() never repeats an id (nextId counts the ids issued).   *)
(***************************************************************************)
EXTENDS Integers, Sequences, FiniteSets, TLC

\* ---------------------------------------------------------------- bounds
\* Number of record/entry ids (UUIDs) the run may issue.
MaxIds == 2
\* Longest text typed into an input field.
MaxInput == 1
\* Number of clipboard copies of a session.
MaxCopies == 3

\* ------------------------------------------------------- program constants
\* AES-256 key length in bytes (crypto/mod.rs:48).
KeyLen == 32
\* AES-GCM nonce length in bytes (storage/mod.rs:56).
NonceLen == 12

\* ------------------------------------------------------------ value shapes
\* RpmResult<T>: Ok(v) or Err(kind); a panic is not a result the caller gets.
Ok(v) == [ok |-> TRUE, val |-> v, err |-> "none"]
Err(kind) == [ok |-> FALSE, val |-> "none", err |-> kind]
Panic == [ok |-> FALSE, val |-> "none", err |-> "Panic"]

\* Option<T>
None == [some |-> FALSE]
Some(x) == [some |-> TRUE, v |-> x]

\* A file that does not exist.
NoFile == [kind |-> "absent"]

\* Display names and secrets the callers use.
Names == {"Gmail", "Bank"}
Secrets == {"s1", "s2"}
Ids == 1..MaxIds
\* Every nonce the RNG draws is one abstract value: the model keeps whether
\* the nonce presented at decryption is the one used at sealing (an altered
\* nonce is any other value), not which 96 bits were drawn.
Nonces == {1}

\* Text the user types, as sequences of characters of at most MaxInput.
DirChars == {"a"}
PwChars == {"p"}
Strings(chars) == UNION {[1..k -> chars] : k \in 0..MaxInput}

\* dirs::data_dir()/rpm/passwords, the directory used when none is set.
DefaultDir == <<"~">>
\* The vault directories a session can name.
Dirs == {DefaultDir} \cup (Strings(DirChars) \ {<<>>})

\* A nonce as bytes: its value and its length.
NonceBytes(n) == [v |-> n, len |-> NonceLen]

\* Keys a caller of the storage API may pass: two valid 32-byte keys and one
\* of the wrong length.
K1 == [mat |-> [pw |-> <<"k">>, salt |-> 1], len |-> KeyLen]
K2 == [mat |-> [pw |-> <<"k">>, salt |-> 2], len |-> KeyLen]
KShort == [mat |-> [pw |-> <<"k">>, salt |-> 1], len |-> 16]
ValidKeys == {K1, K2}
AllKeys == {K1, K2, KShort}

\* ------------------------------------------------------------------ codecs
\* base64 STANDARD: encode yields a well-formed string carrying the bytes;
\* decode returns the bytes of a well-formed string and fails on any other.
B64Encode(bytes) == [bytes |-> bytes, wf |-> TRUE]
B64Decode(s) == IF s.wf THEN Ok(s.bytes) ELSE Err("Base64")

\* serde_json for DefFile: to_string wraps the entry list in a JSON text,
\* from_str gives the list back or fails on a text that is no DefFile.
ToJson(entries) == [json |-> "DefFile", entries |-> entries]
FromJson(text) ==
    IF text.json = "DefFile" THEN Ok(text.entries) ELSE Err("Serialization")

\* --------------------------------------------------------------- AEAD core
\* cipher.encrypt(nonce, plaintext): the sealed box remembers what it seals
\* and under which key and nonce; flip marks ciphertext bytes changed since.
Seal(pt, key, nonce) == [pt |-> pt, k |-> key.mat, n |-> nonce.v, flip |-> FALSE]
\* cipher.decrypt(nonce, ciphertext): the tag verifies only for the sealing
\* key and nonce and unchanged bytes.
Opens(ct, nonce, key) == ct.k = key.mat /\ ct.n = nonce.v /\ ~ct.flip

\* Faulty variant of encrypt_password: no check of the key length.
encrypt_password_nocheck(password, key, n) ==
    Ok([ct |-> Seal(password, key, NonceBytes(n)), nonce |-> NonceBytes(n)])

\* CryptoManager::encrypt_password, with the nonce the RNG drew.
encrypt_password(password, key, n) ==
    IF key.len # KeyLen THEN Err("Crypto")
    ELSE Ok([ct |-> Seal(password, key, NonceBytes(n)), nonce |-> NonceBytes(n)])

\* CryptoManager::decrypt_password. Nonce::from_slice asserts the slice is
\* 12 bytes long and panics otherwise.
decrypt_password(ct, nonce, key) ==
    IF key.len # KeyLen THEN Err("Crypto")
    ELSE IF nonce.len # NonceLen THEN Panic
    ELSE IF Opens(ct, nonce, key) THEN Ok(ct.pt)
    ELSE Err("Crypto")

\* CryptoManager::encrypt_data: called by the storage layer; its body is not
\* in the sources, so it follows the specification of encrypt (section 4.2).
encrypt_data(bytes, key, n) ==
    IF key.len # KeyLen THEN Err("Crypto")
    ELSE Ok([ct |-> Seal(bytes, key, NonceBytes(n)), nonce |-> NonceBytes(n)])

\* CryptoManager::decrypt_data: as encrypt_data, from section 4.2: any
\* failure to authenticate is a Crypto error.
decrypt_data(ct, nonce, key) ==
    IF key.len # KeyLen THEN Err("Crypto")
    ELSE IF nonce.len = NonceLen /\ Opens(ct, nonce, key) THEN Ok(ct.pt)
    ELSE Err("Crypto")

\* CryptoManager::hash_password: an Argon2id PHC string; which password it
\* verifies is all the model keeps of it.
hash_password(password) == Ok([phc |-> TRUE, pw |-> password])

\* Faulty variant of verify_password: a hash that parses verifies every
\* password.
verify_password_any(password, hash) ==
    IF ~hash.phc THEN Err("Crypto") ELSE Ok(TRUE)

\* Faulty variant of verify_password: a mismatch is passed on as an error.
verify_password_strict(password, hash) ==
    IF ~hash.phc THEN Err("Crypto")
    ELSE IF hash.pw = password THEN Ok(TRUE) ELSE Err("Crypto")

\* CryptoManager::verify_password: an error for a string that is no PHC
\* hash, else whether the password is the hashed one.
verify_password(password, hash) ==
    IF ~hash.phc THEN Err("Crypto") ELSE Ok(hash.pw = password)

\* key_derivation::derive_key with a salt supplied: 32 bytes that are a
\* function of password and salt, different for different arguments.
\* Faulty variant of derive_key: the salt does not enter the key.
derive_key_nosalt(password, salt) ==
    Ok([mat |-> [pw |-> password, salt |-> 0], len |-> KeyLen])

derive_key(password, salt) ==
    Ok([mat |-> [pw |-> password, salt |-> salt], len |-> KeyLen])

\* The 32 salt bytes the RNG draws, as one abstract value.
Salts == {1}
\* BASE64_STANDARD_NO_PAD.encode of a salt, and the decoding the session
\* tries: without padding first, then with padding.
SaltEncode(bytes) == [bytes |-> bytes, padded |-> FALSE, wf |-> TRUE]
\* BASE64_STANDARD_NO_PAD.decode: padding is an error
DecodeNoPad(text) ==
    IF text.wf /\ ~text.padded THEN Ok(text.bytes) ELSE Err("Crypto")
\* BASE64_STANDARD.decode: 32 bytes are 43 characters and one '=', which
\* this decoder requires
DecodeStandard(text) ==
    IF text.wf /\ text.padded THEN Ok(text.bytes) ELSE Err("Crypto")
\* Faulty variant of SaltDecode: no second attempt with padding.
SaltDecode_nofallback(text) == DecodeNoPad(text)
SaltDecode(text) ==
    IF DecodeNoPad(text).ok THEN DecodeNoPad(text) ELSE DecodeStandard(text)

\* ------------------------------------------------------------- the vault
\* A vault directory: its .rpm_config, its def file and its record files.
\* def: NoFile, a file shorter than a nonce, or nonce || ciphertext.
\* pwd[id]: NoFile, a JSON PasswordFile, or bytes that are no such JSON.
EmptyDir == [cfg |-> NoFile, def |-> NoFile, pwd |-> [i \in Ids |-> NoFile]]

\* Faulty variant of load_def_file: reads the file without asking whether
\* it exists.
load_def_file_noexists(d, key) ==
    IF d.def.kind = "absent" THEN Err("Io")
    ELSE IF d.def.kind = "short" THEN Err("Crypto")
    ELSE LET pt == decrypt_data(d.def.tail, d.def.head, key)
         IN IF ~pt.ok THEN pt ELSE FromJson(pt.val)

\* Faulty variant of load_def_file: a file that cannot be decrypted or
\* parsed is taken for an empty index.
load_def_file_lenient(d, key) ==
    IF d.def.kind = "absent" THEN Ok(<<>>)
    ELSE IF d.def.kind = "short" THEN Ok(<<>>)
    ELSE LET pt == decrypt_data(d.def.tail, d.def.head, key)
         IN IF ~pt.ok \/ pt.val.json # "DefFile" THEN Ok(<<>>)
            ELSE Ok(pt.val.entries)

\* PasswordStorage::load_def_file: String::from_utf8 of the plaintext fails
\* with a Crypto error, serde_json::from_str with a Serialization error.
load_def_file(d, key) ==
    IF d.def.kind = "absent" THEN Ok(<<>>)
    ELSE IF d.def.kind = "short" THEN Err("Crypto")
    ELSE LET pt == decrypt_data(d.def.tail, d.def.head, key)
         IN IF ~pt.ok THEN pt
            ELSE IF pt.val.json = "notutf8" THEN Err("Crypto")
            ELSE FromJson(pt.val)

\* Faulty variant of save_def_file: writes the ciphertext without the nonce
\* in front, so its first bytes are read back as the nonce.
save_def_file_nononce(d, entries, key, n) ==
    LET enc == encrypt_data(ToJson(entries), key, n)
    IN IF ~enc.ok THEN [res |-> enc, d |-> d]
       ELSE [res |-> Ok("unit"),
             d |-> [d EXCEPT !.def = [kind |-> "bin",
                                      head |-> [v |-> 0, len |-> NonceLen],
                                      tail |-> enc.val.ct]]]

\* PasswordStorage::save_def_file, with the nonce n the RNG drew: the file
\* becomes nonce || ciphertext, replacing whatever was there.
\* Faulty variant of save_def_file: the entries on disk that the caller's list
\* lacks are kept in front of it instead of being replaced.
save_def_file_merge(d, entries, key, n) ==
    LET held == load_def_file(d, key)
        kept == IF held.ok
                THEN SelectSeq(held.val,
                         LAMBDA e : \A i \in 1..Len(entries) :
                             entries[i].encrypted_filename # e.encrypted_filename)
                ELSE <<>>
        enc == encrypt_data(ToJson(kept \o entries), key, n)
    IN IF ~enc.ok THEN [res |-> enc, d |-> d]
       ELSE [res |-> Ok("unit"),
             d |-> [d EXCEPT !.def = [kind |-> "bin", head |-> enc.val.nonce,
                                      tail |-> enc.val.ct]]]

save_def_file(d, entries, key, n) ==
    LET enc == encrypt_data(ToJson(entries), key, n)
    IN IF ~enc.ok THEN [res |-> enc, d |-> d]
       ELSE [res |-> Ok("unit"),
             d |-> [d EXCEPT !.def = [kind |-> "bin", head |-> enc.val.nonce,
                                      tail |-> enc.val.ct]]]

\* PasswordStorage::encrypt_filename
encrypt_filename(name, key, n) ==
    LET enc == encrypt_data(name, key, n)
    IN IF ~enc.ok THEN enc
       ELSE Ok([encrypted_name |-> B64Encode(enc.val.ct),
                nonce |-> B64Encode(enc.val.nonce)])

\* PasswordStorage::decrypt_filename
decrypt_filename(encrypted_name, nonce, key) ==
    LET ct == B64Decode(encrypted_name)
        nb == B64Decode(nonce)
    IN IF ~ct.ok THEN Err("Crypto")
       ELSE IF ~nb.ok THEN Err("Crypto")
       ELSE decrypt_data(ct.val, nb.val, key)

\* The JSON text of a PasswordFile (serde_json::to_string).
PasswordFileJson(enc) ==
    [kind |-> "json", encrypted_password |-> B64Encode(enc.ct),
     nonce |-> B64Encode(enc.nonce)]

\* PasswordStorage::save_password_file: a new record under a fresh id u.
save_password_file(d, password, key, u, n) ==
    LET enc == encrypt_password(password, key, n)
    IN IF ~enc.ok THEN [res |-> enc, d |-> d]
       ELSE [res |-> Ok(u), d |-> [d EXCEPT !.pwd[u] = PasswordFileJson(enc.val)]]

\* PasswordStorage::load_password_file. read_to_string fails with an Io
\* error for a missing file and also for a file that is not UTF-8.
load_password_file(d, filename, key) ==
    LET f == d.pwd[filename]
    IN IF f.kind = "absent" \/ f.kind = "notutf8" THEN Err("Io")
       ELSE IF f.kind = "badjson" THEN Err("Serialization")
       ELSE LET ct == B64Decode(f.encrypted_password)
                nb == B64Decode(f.nonce)
            IN IF ~ct.ok THEN Err("Crypto")
               ELSE IF ~nb.ok THEN Err("Crypto")
               ELSE decrypt_password(ct.val, nb.val, key)

\* Faulty variant of update_password_file: encrypts but never writes.
update_password_file_nowrite(d, filename, password, key, n) ==
    LET enc == encrypt_password(password, key, n)
    IN IF ~enc.ok THEN [res |-> enc, d |-> d] ELSE [res |-> Ok("unit"), d |-> d]

\* PasswordStorage::update_password_file: overwrites (or creates) the file.
update_password_file(d, filename, password, key, n) ==
    LET enc == encrypt_password(password, key, n)
    IN IF ~enc.ok THEN [res |-> enc, d |-> d]
       ELSE [res |-> Ok("unit"),
             d |-> [d EXCEPT !.pwd[filename] = PasswordFileJson(enc.val)]]

\* The loop of list_decrypted_names over the entries from position i on:
\* the first name that does not decrypt ends it with that error.
RECURSIVE NamesFrom(_, _, _)
NamesFrom(entries, i, key) ==
    IF i > Len(entries) THEN Ok(<<>>)
    ELSE LET e == entries[i]
             nm == decrypt_filename(e.encrypted_name, e.nonce, key)
         IN IF ~nm.ok THEN nm
            ELSE LET rest == NamesFrom(entries, i + 1, key)
                 IN IF ~rest.ok THEN rest
                    ELSE Ok(<<<<e.encrypted_filename, nm.val>>>> \o rest.val)

\* PasswordStorage::list_decrypted_names
list_decrypted_names(d, key) ==
    LET ld == load_def_file(d, key)
    IN IF ~ld.ok THEN ld ELSE NamesFrom(ld.val, 1, key)

\* Faulty variant of add_entry: the new entry is put first, not last.
add_entry_front(d, name, key, u, n1, n2) ==
    LET ld == load_def_file(d, key)
    IN IF ~ld.ok THEN [res |-> ld, d |-> d]
       ELSE LET en == encrypt_filename(name, key, n1)
            IN IF ~en.ok THEN [res |-> en, d |-> d]
               ELSE LET entry == [encrypted_filename |-> u,
                                  encrypted_name |-> en.val.encrypted_name,
                                  nonce |-> en.val.nonce]
                        sv == save_def_file(d, <<entry>> \o ld.val, key, n2)
                    IN IF ~sv.res.ok THEN sv ELSE [res |-> Ok(u), d |-> sv.d]

\* Faulty variant of add_entry: the new entry takes the id of the last entry
\* of the index it loaded, when there is one.
add_entry_reuse(d, name, key, u, n1, n2) ==
    LET ld == load_def_file(d, key)
    IN IF ~ld.ok THEN [res |-> ld, d |-> d]
       ELSE LET en == encrypt_filename(name, key, n1)
            IN IF ~en.ok THEN [res |-> en, d |-> d]
               ELSE LET id == IF ld.val = <<>> THEN u
                              ELSE ld.val[Len(ld.val)].encrypted_filename
                        entry == [encrypted_filename |-> id,
                                  encrypted_name |-> en.val.encrypted_name,
                                  nonce |-> en.val.nonce]
                        sv == save_def_file(d, Append(ld.val, entry), key, n2)
                    IN IF ~sv.res.ok THEN sv ELSE [res |-> Ok(id), d |-> sv.d]

\* Faulty variant of add_entry: an index that cannot be loaded is replaced by
\* a new one that holds the added entry only.
add_entry_fresh(d, name, key, u, n1, n2) ==
    LET ld == load_def_file(d, key)
        en == encrypt_filename(name, key, n1)
    IN IF ~en.ok THEN [res |-> en, d |-> d]
       ELSE LET entry == [encrypted_filename |-> u,
                          encrypted_name |-> en.val.encrypted_name,
                          nonce |-> en.val.nonce]
                sv == save_def_file(d, Append(IF ld.ok THEN ld.val ELSE <<>>, entry),
                                    key, n2)
            IN IF ~sv.res.ok THEN sv ELSE [res |-> Ok(u), d |-> sv.d]

\* PasswordStorage::add_entry, with the id u and the nonces the RNG drew.
add_entry(d, name, key, u, n1, n2) ==
    LET ld == load_def_file(d, key)
    IN IF ~ld.ok THEN [res |-> ld, d |-> d]
       ELSE LET en == encrypt_filename(name, key, n1)
            IN IF ~en.ok THEN [res |-> en, d |-> d]
               ELSE LET entry == [encrypted_filename |-> u,
                                  encrypted_name |-> en.val.encrypted_name,
                                  nonce |-> en.val.nonce]
                        sv == save_def_file(d, Append(ld.val, entry), key, n2)
                    IN IF ~sv.res.ok THEN sv ELSE [res |-> Ok(u), d |-> sv.d]

\* The loop of update_entry: the first entry with the id gets the new
\* encrypted name (break), the others stay as they are.
RECURSIVE RenameFirst(_, _, _, _)
RenameFirst(entries, i, filename, en) ==
    IF i > Len(entries) THEN entries
    ELSE IF entries[i].encrypted_filename = filename
         THEN [entries EXCEPT ![i] = [encrypted_filename |-> filename,
                                      encrypted_name |-> en.encrypted_name,
                                      nonce |-> en.nonce]]
         ELSE RenameFirst(entries, i + 1, filename, en)

\* Faulty variant of update_entry: every entry gets the new name.
update_entry_all(d, filename, new_name, key, n1, n2) ==
    LET ld == load_def_file(d, key)
        en == encrypt_filename(new_name, key, n1)
    IN IF ~ld.ok THEN [res |-> ld, d |-> d]
       ELSE IF ~en.ok THEN [res |-> en, d |-> d]
       ELSE save_def_file(d, [i \in 1..Len(ld.val) |->
                                 [ld.val[i] EXCEPT
                                     !.encrypted_name = en.val.encrypted_name,
                                     !.nonce = en.val.nonce]], key, n2)

\* PasswordStorage::update_entry
update_entry(d, filename, new_name, key, n1, n2) ==
    LET ld == load_def_file(d, key)
    IN IF ~ld.ok THEN [res |-> ld, d |-> d]
       ELSE LET hit == \E i \in 1..Len(ld.val) :
                           ld.val[i].encrypted_filename = filename
                en == encrypt_filename(new_name, key, n1)
            IN IF hit /\ ~en.ok THEN [res |-> en, d |-> d]
               ELSE LET entries == IF hit
                                   THEN RenameFirst(ld.val, 1, filename, en.val)
                                   ELSE ld.val
                    IN save_def_file(d, entries, key, n2)

\* entries.retain(|e| e.encrypted_filename != filename)
RECURSIVE Retain(_, _)
Retain(entries, filename) ==
    IF entries = <<>> THEN <<>>
    ELSE IF Head(entries).encrypted_filename = filename
         THEN Retain(Tail(entries), filename)
         ELSE <<Head(entries)>> \o Retain(Tail(entries), filename)

\* Faulty variant of delete_entry: the record file is left behind.
delete_entry_keepfile(d, filename, key, n) ==
    LET ld == load_def_file(d, key)
    IN IF ~ld.ok THEN [res |-> ld, d |-> d]
       ELSE save_def_file(d, Retain(ld.val, filename), key, n)

\* Faulty variant of delete_entry: the record file is removed without
\* asking whether it exists, so a missing file is an Io failure.
delete_entry_strict(d, filename, key, n) ==
    LET ld == load_def_file(d, key)
    IN IF ~ld.ok THEN [res |-> ld, d |-> d]
       ELSE LET sv == save_def_file(d, Retain(ld.val, filename), key, n)
            IN IF ~sv.res.ok THEN sv
               ELSE IF sv.d.pwd[filename].kind = "absent"
                    THEN [res |-> Err("Io"), d |-> sv.d]
                    ELSE [res |-> Ok("unit"),
                          d |-> [sv.d EXCEPT !.pwd[filename] = NoFile]]

\* PasswordStorage::delete_entry: the index is saved without the entry,
\* then the record file is removed if it exists.
delete_entry(d, filename, key, n) ==
    LET ld == load_def_file(d, key)
    IN IF ~ld.ok THEN [res |-> ld, d |-> d]
       ELSE LET sv == save_def_file(d, Retain(ld.val, filename), key, n)
            IN IF ~sv.res.ok THEN sv
               ELSE [res |-> Ok("unit"),
                     d |-> [sv.d EXCEPT !.pwd[filename] = NoFile]]

\* The loop of find_filename_by_name from position i on.
RECURSIVE FindFrom(_, _, _, _)
FindFrom(entries, i, name, key) ==
    IF i > Len(entries) THEN Ok(None)
    ELSE LET e == entries[i]
             nm == decrypt_filename(e.encrypted_name, e.nonce, key)
         IN IF ~nm.ok THEN nm
            ELSE IF nm.val = name THEN Ok(Some(e.encrypted_filename))
            ELSE FindFrom(entries, i + 1, name, key)

\* Faulty variant of find_filename_by_name: the last match wins.
find_filename_by_name_last(d, name, key) ==
    LET ld == load_def_file(d, key)
    IN IF ~ld.ok THEN ld
       ELSE LET hits == {i \in 1..Len(ld.val) :
                           decrypt_filename(ld.val[i].encrypted_name,
                                            ld.val[i].nonce, key) = Ok(name)}
            IN IF hits = {} THEN Ok(None)
               ELSE Ok(Some(ld.val[CHOOSE i \in hits :
                                     \A j \in hits : j <= i].encrypted_filename))

\* PasswordStorage::find_filename_by_name
find_filename_by_name(d, name, key) ==
    LET ld == load_def_file(d, key)
    IN IF ~ld.ok THEN ld ELSE FindFrom(ld.val, 1, name, key)

\* ----------------------------------------------------- config and session
\* Config::default(), of which the model keeps passwords_directory.
DefaultConfig == [passwords_directory |-> None]

\* Config::passwords_directory_path
passwords_directory_path(cfg) ==
    IF cfg.passwords_directory.some THEN cfg.passwords_directory.v ELSE DefaultDir

\* str::trim: the text without leading and trailing blanks.
RECURSIVE TrimStart(_)
TrimStart(t) == IF t # <<>> /\ Head(t) = " " THEN TrimStart(Tail(t)) ELSE t
RECURSIVE TrimEnd(_)
TrimEnd(t) ==
    IF t # <<>> /\ t[Len(t)] = " " THEN TrimEnd(SubSeq(t, 1, Len(t) - 1)) ELSE t
Trim(t) == TrimEnd(TrimStart(t))

\* The directory a form's text stands for: Some(path) unless blank.
DirectoryOfInput(input) ==
    IF Trim(input) # <<>> THEN Some(Trim(input)) ELSE None

\* String::pop
Pop(t) == IF t = <<>> THEN t ELSE SubSeq(t, 1, Len(t) - 1)

\* The record DirectoryConfig::load returns for a directory without
\* .rpm_config, which is also the fallback of its callers.
EmptyDirectoryConfig == [master_password_hash |-> None, encryption_key_salt |-> None]

\* DirectoryConfig::load: the empty record when .rpm_config is absent, the
\* record of the file when it parses, the error of read_to_string or
\* toml::from_str otherwise.
DirectoryConfig_load_result(files, directory) ==
    LET f == files[directory].cfg
    IN IF f.kind = "absent" THEN Ok(EmptyDirectoryConfig)
       ELSE IF f.kind = "toml"
       THEN Ok([master_password_hash |-> f.master_password_hash,
                encryption_key_salt |-> f.encryption_key_salt])
       ELSE Err("Config")

\* DirectoryConfig::load with the callers' unwrap_or_else: the record of
\* .rpm_config, or the empty record when the file is absent or when load
\* returned an error.
DirectoryConfig_load(files, directory) ==
    LET loaded == DirectoryConfig_load_result(files, directory)
    IN IF loaded.ok THEN loaded.val ELSE EmptyDirectoryConfig

\* DirectoryConfig::save: creates the directory and writes .rpm_config.
DirectoryConfig_save(files, directory, dc) ==
    [files EXCEPT ![directory].cfg =
        [kind |-> "toml", master_password_hash |-> dc.master_password_hash,
         encryption_key_salt |-> dc.encryption_key_salt]]

\* DirectoryConfig::has_master_password
has_master_password(dc) == dc.master_password_hash.some

\* run_tui up to its event loop: the TuiState a session starts with.
InitState(cfg, files) ==
    [should_quit |-> FALSE,
     current_screen |-> "MasterPassword",
     passwords_dir_input |->
         IF cfg.passwords_directory.some THEN cfg.passwords_directory.v ELSE <<>>,
     all_items |-> <<>>,
     master_password_input |-> <<>>,
     master_password_confirm |-> <<>>,
     master_password_field |-> 0,
     is_creating_master_password |->
         ~has_master_password(DirectoryConfig_load(files, passwords_directory_path(cfg))),
     encryption_key |-> None,
     settings_field |-> 0]

\* ------------------------------------------------------------------ state
\* The clipboard and its clear tasks. Copy k of a session spawns task k.
Copies == 1..MaxCopies
\* the system clipboard: a text and the number of the copy that put it there
Text(text, n) == [text |-> text, copy |-> n]
NoText == Text("", 0)
\* the Ctrl+C handler: not running, after n copies were begun
Idle(n) == [at |-> "idle", text |-> "", n |-> n]

\* The processes that write the index, and a process outside add_entry.
Writers == {"A", "B"}
NotWriting == [pc |-> "idle", id |-> 0, name |-> "none", entries |-> <<>>]
\* What the process memory holds of typed passwords. For each password
\* buffer of TuiState, the number of bytes of its allocation, from the
\* start, that hold typed characters: String::push writes a byte,
\* String::pop and String::clear only lower the length, zeroize overwrites
\* the whole allocation. freed is that number for allocations that were
\* dropped without zeroize; returned tells how run_tui ended.
CleanMemory ==
    [master_password_input |-> 0, master_password_confirm |-> 0,
     freed |-> 0, returned |-> "no"]
Max(a, b) == IF a > b THEN a ELSE b
\* String::push on a buffer of len bytes
Pushed(held, len) == Max(held, len + 1)

\* The list of Main as run_tui starts with it: TuiState::new and
\* ListState::default().
NoView == [selected_index |-> 0, search_query |-> <<>>, filtered_items |-> <<>>,
           name_to_filename |-> <<>>, list_state |-> None, filename |-> None]
\* main after its two spawns: the watch channel holds its first value, which
\* the server's receiver has seen; the server task has not bound its
\* listener yet; main awaits the TUI task.
Serving == [version |-> 0, seen |-> 0, server |-> "starting", main |-> "await_tui"]

VARIABLES
    fs,       \* the file system: the content of every vault directory
    nextId,   \* the next id Uuid::new_v4() hands out
    last,     \* the storage call recorded last, with its result
    live,     \* history: the (id, name) pairs added and not removed, in order
    state,    \* TuiState of the running session
    config,   \* the global Config, as held by the session and as saved
    storage,  \* PasswordStorage.passwords_dir of the session
    clipboard,                \* the system clipboard: its text and the copy that set it
    tasks,                    \* the clipboard-clear tasks spawned on the runtime
    clipboard_cleanup_handle, \* TuiState.clipboard_cleanup_handle
    copy_pc,  \* where the UI loop stands in the Ctrl+C handler
    writers,  \* per writing process: its position in add_entry and what it loaded
    memory,   \* password bytes the session's buffers and freed memory hold
    view,     \* the list of Main (selected_index, search_query, filtered_items,
              \* name_to_filename, list_state) and the filename of PasswordEntry
    help_from,\* the screen whose F1 opened Help, "none" outside Help
    shutdown  \* the watch channel of main, the server task and main itself

clipVars == <<clipboard, tasks, clipboard_cleanup_handle, copy_pc>>
storeVars == <<fs, nextId, last, live>>
auxVars == <<view, help_from, shutdown>>
sessionVars == <<state, config, storage, clipVars, writers, memory, auxVars>>
vars == <<fs, nextId, last, live, state, config, storage, clipVars, writers,
         memory, auxVars>>

\* The directory the storage API calls work on.
StoreDir == DefaultDir
D == fs[StoreDir]

\* A call as the caller saw it; had tells what the vault held just before:
\* entry: an index entry with the call's id (for add: with the call's name),
\* file: a record file under the call's id.
Call(op, id, arg, key, res, had) ==
    [op |-> op, id |-> id, arg |-> arg, key |-> key, res |-> res, had |-> had]
Had(entry, file) == [entry |-> entry, file |-> file]
NoCall == Call("none", 0, "none", K1, Ok("unit"), Had(FALSE, FALSE))
HasId(l, id) == \E i \in 1..Len(l) : l[i][1] = id
HasName(l, name) == \E i \in 1..Len(l) : l[i][2] = name
HasFile(d, id) == d.pwd[id].kind # "absent"

\* The history of the index as the callers see it.
LiveRename(l, id, name) ==
    [i \in 1..Len(l) |-> IF l[i][1] = id THEN <<id, name>> ELSE l[i]]
RECURSIVE LiveRemove(_, _)
LiveRemove(l, id) ==
    IF l = <<>> THEN <<>>
    ELSE IF Head(l)[1] = id THEN LiveRemove(Tail(l), id)
         ELSE <<Head(l)>> \o LiveRemove(Tail(l), id)

\* A first start: no vault directory holds anything, the global config is
\* the default one, and run_tui has built its state and storage from it.
StoreInit ==
    /\ fs = [dir \in Dirs |-> EmptyDir]
    /\ nextId = 1
    /\ last = NoCall
    /\ live = <<>>
    /\ config = DefaultConfig
    /\ state = InitState(DefaultConfig, [dir \in Dirs |-> EmptyDir])
    /\ storage = passwords_directory_path(DefaultConfig)
    /\ clipboard = NoText
    /\ tasks = [t \in Copies |-> "unborn"]
    /\ clipboard_cleanup_handle = None
    /\ copy_pc = Idle(0)
    /\ writers = [w \in Writers |-> NotWriting]
    /\ memory = CleanMemory
    /\ view = NoView
    /\ help_from = "none"
    /\ shutdown = Serving

\* ------------------------------------------------- storage API, as called
\* add(name, key)
Add(name, key) ==
    /\ UNCHANGED sessionVars
    /\ nextId <= MaxIds
    /\ \E n1 \in Nonces, n2 \in Nonces :
         LET r == add_entry(D, name, key, nextId, n1, n2)
         IN /\ fs' = [fs EXCEPT ![StoreDir] = r.d]
            /\ nextId' = IF r.res.ok THEN nextId + 1 ELSE nextId
            /\ live' = IF r.res.ok THEN Append(live, <<nextId, name>>) ELSE live
            /\ last' = IF r.res.ok THEN Call("add", nextId, name, key, r.res,
                                Had(HasName(live, name), HasFile(D, nextId))) ELSE last

\* rename(id, new_name, key), for an id the engine has handed out
Rename(id, name, key) ==
    /\ UNCHANGED sessionVars
    /\ id < nextId
    /\ \E n1 \in Nonces, n2 \in Nonces :
        LET r == update_entry(D, id, name, key, n1, n2)
        IN /\ fs' = [fs EXCEPT ![StoreDir] = r.d]
           /\ live' = IF r.res.ok THEN LiveRename(live, id, name) ELSE live
           /\ last' = IF r.res.ok THEN Call("rename", id, name, key, r.res,
                                Had(HasId(live, id), HasFile(D, id))) ELSE last
           /\ UNCHANGED nextId

\* remove(id, key), for an id the engine has handed out
Remove(id, key) ==
    /\ UNCHANGED sessionVars
    /\ id < nextId
    /\ \E n \in Nonces :
        LET r == delete_entry(D, id, key, n)
        IN /\ fs' = [fs EXCEPT ![StoreDir] = r.d]
           /\ live' = IF r.res.ok THEN LiveRemove(live, id) ELSE live
           /\ last' = IF r.res.ok THEN Call("remove", id, "none", key, r.res,
                                Had(HasId(live, id), HasFile(D, id))) ELSE last
           /\ UNCHANGED nextId

\* create(secret, key)
Create(secret, key) ==
    /\ UNCHANGED sessionVars
    /\ nextId <= MaxIds
    /\ \E n \in Nonces :
         LET r == save_password_file(D, secret, key, nextId, n)
         IN /\ fs' = [fs EXCEPT ![StoreDir] = r.d]
            /\ nextId' = IF r.res.ok THEN nextId + 1 ELSE nextId
            /\ last' = IF r.res.ok THEN Call("create", nextId, secret, key, r.res,
                                Had(FALSE, HasFile(D, nextId))) ELSE last
            /\ UNCHANGED live

\* update(id, secret, key), for an id the engine has handed out
Update(id, secret, key) ==
    /\ UNCHANGED sessionVars
    /\ id < nextId
    /\ \E n \in Nonces :
        LET r == update_password_file(D, id, secret, key, n)
        IN /\ fs' = [fs EXCEPT ![StoreDir] = r.d]
           /\ last' = IF r.res.ok THEN Call("update", id, secret, key, r.res,
                                Had(HasId(live, id), HasFile(D, id))) ELSE last
           /\ UNCHANGED <<nextId, live>>

\* Storage calls that only read: their result, success or failure, is kept.
\* read(id, key)
Read(id, key) ==
    /\ UNCHANGED sessionVars
    /\ last' = Call("read", id, "none", key, load_password_file(D, id, key),
                    Had(FALSE, HasFile(D, id)))
    /\ UNCHANGED <<fs, nextId, live>>

\* load(key)
Load(key) ==
    /\ UNCHANGED sessionVars
    /\ last' = Call("load", 0, "none", key, load_def_file(D, key),
                    Had(D.def.kind # "absent", FALSE))
    /\ UNCHANGED <<fs, nextId, live>>

\* list(key)
List(key) ==
    /\ UNCHANGED sessionVars
    /\ last' = Call("list", 0, "none", key, list_decrypted_names(D, key),
                    Had(D.def.kind # "absent", FALSE))
    /\ UNCHANGED <<fs, nextId, live>>

\* find_by_name(name, key)
Find(name, key) ==
    /\ UNCHANGED sessionVars
    /\ last' = Call("find", 0, name, key, find_filename_by_name(D, name, key),
                    Had(D.def.kind # "absent", FALSE))
    /\ UNCHANGED <<fs, nextId, live>>

StoreNext ==
    \/ \E name \in Names, key \in AllKeys : Add(name, key)
    \/ \E id \in Ids, name \in Names, key \in AllKeys : Rename(id, name, key)
    \/ \E id \in Ids, key \in AllKeys : Remove(id, key)
    \/ \E secret \in Secrets, key \in AllKeys : Create(secret, key)
    \/ \E id \in Ids, secret \in Secrets, key \in AllKeys : Update(id, secret, key)

SpecStore == StoreInit /\ [][StoreNext]_vars

\* ------------------------------------------------------- the index codec
\* The entry lists a caller hands to save: entry i has id i, and all names
\* were encrypted (encrypt_filename) under one valid key.
EntryOf(id, name, key) ==
    LET en == encrypt_filename(name, key, 1)
    IN [encrypted_filename |-> id, encrypted_name |-> en.val.encrypted_name,
        nonce |-> en.val.nonce]
NameLists == UNION {[1..k -> Names] : k \in 0..MaxIds}
EntriesOf(names, key) == [i \in 1..Len(names) |-> EntryOf(i, names[i], key)]
\* The (id, name) pairs of such a list.
PairsOf(names) == [i \in 1..Len(names) |-> <<i, names[i]>>]

\* The def file as the engine wrote it: its nonce is the sealing nonce and
\* its ciphertext is unchanged.
IndexIntact(d) ==
    /\ d.def.kind = "bin"
    /\ ~d.def.tail.flip /\ d.def.head.v = d.def.tail.n /\ d.def.head.len = NonceLen

\* save(E, K): the call keeps the names and the key E was built from.
SaveIndex(names, ekey, key) ==
    /\ UNCHANGED sessionVars
    /\ \E n \in Nonces :
        LET r == save_def_file(D, EntriesOf(names, ekey), key, n)
        IN /\ fs' = [fs EXCEPT ![StoreDir] = r.d]
           /\ last' = Call("save", 0, [names |-> names, ekey |-> ekey], key,
                           r.res, Had(D.def.kind # "absent", FALSE))
           /\ UNCHANGED <<nextId, live>>

\* The def file changes outside the program: a bit of the ciphertext, a bit
\* of the leading nonce, all but a few bytes are lost, or the file is removed.
CorruptIndex(how) ==
    /\ UNCHANGED sessionVars
    /\ IndexIntact(D)
    /\ fs' = [fs EXCEPT ![StoreDir].def =
                 CASE how = "ciphertext" -> [D.def EXCEPT !.tail.flip = TRUE]
                   [] how = "nonce" -> [D.def EXCEPT !.head.v = 0]
                   [] how = "truncate" -> [kind |-> "short"]
                   [] OTHER -> NoFile]
    /\ last' = Call("corrupt", 0, how, K1, Ok("unit"), Had(TRUE, FALSE))
    /\ UNCHANGED <<nextId, live>>

IndexNext ==
    \/ \E names \in NameLists, ekey \in ValidKeys, key \in AllKeys :
           SaveIndex(names, ekey, key)
    \/ \E how \in {"ciphertext", "nonce", "truncate", "remove"} : CorruptIndex(how)
    \/ \E key \in AllKeys : Load(key)
    \/ \E key \in AllKeys : List(key)
    \/ \E name \in Names, key \in AllKeys : Find(name, key)

SpecIndex == StoreInit /\ [][IndexNext]_vars

\* ------------------------------------------- loading any sealed def file
\* A def file sealed under the key whose plaintext is no DefFile JSON: bytes
\* that are not UTF-8, or a JSON text that breaks off or is malformed after
\* some of the entries. how is "notutf8" or "malformed".
ForeignText(how, names, key) == [json |-> how, entries |-> EntriesOf(names, key)]
ForeignIndex(how, names, key) ==
    /\ UNCHANGED sessionVars
    /\ \E n \in Nonces :
         LET enc == encrypt_data(ForeignText(how, names, key), key, n)
         IN fs' = [fs EXCEPT ![StoreDir].def =
                      [kind |-> "bin", head |-> enc.val.nonce, tail |-> enc.val.ct]]
    /\ last' = Call("foreign", 0, how, key, Ok("unit"),
                    Had(D.def.kind # "absent", FALSE))
    /\ UNCHANGED <<nextId, live>>

LoadNext ==
    \/ \E names \in NameLists, key \in ValidKeys : SaveIndex(names, key, key)
    \/ \E how \in {"notutf8", "malformed"}, names \in NameLists, key \in ValidKeys :
           ForeignIndex(how, names, key)
    \/ \E how \in {"ciphertext", "nonce", "truncate", "remove"} : CorruptIndex(how)
    \/ \E key \in AllKeys : Load(key)

SpecLoad == StoreInit /\ [][LoadNext]_vars

\* ------------------------------------------- storage calls under any key
\* Keys of a wrong length, and the keys these runs call the storage with.
KLong == [mat |-> [pw |-> <<"k">>, salt |-> 1], len |-> 33]
BadKeys == {KShort, KLong}
TryKeys == {K1} \cup BadKeys

\* What these runs keep of a call: the operation, the key and the result.
Tried(op, key, res) == Call(op, 0, "none", key, res, Had(FALSE, FALSE))

\* add(name, key) under any key
TryAdd(name, key) ==
    /\ UNCHANGED sessionVars
    /\ nextId <= MaxIds
    /\ \E n1 \in Nonces, n2 \in Nonces :
         LET r == add_entry(D, name, key, nextId, n1, n2)
         IN /\ fs' = [fs EXCEPT ![StoreDir] = r.d]
            /\ nextId' = IF r.res.ok THEN nextId + 1 ELSE nextId
            /\ last' = Tried("add", key, r.res)
            /\ UNCHANGED live

\* rename(id, new_name, key) under any key
TryRename(id, name, key) ==
    /\ UNCHANGED sessionVars
    /\ \E n1 \in Nonces, n2 \in Nonces :
         LET r == update_entry(D, id, name, key, n1, n2)
         IN /\ fs' = [fs EXCEPT ![StoreDir] = r.d]
            /\ last' = Tried("rename", key, r.res)
            /\ UNCHANGED <<nextId, live>>

\* create(secret, key) under any key
TryCreate(secret, key) ==
    /\ UNCHANGED sessionVars
    /\ nextId <= MaxIds
    /\ \E n \in Nonces :
         LET r == save_password_file(D, secret, key, nextId, n)
         IN /\ fs' = [fs EXCEPT ![StoreDir] = r.d]
            /\ nextId' = IF r.res.ok THEN nextId + 1 ELSE nextId
            /\ last' = Tried("create", key, r.res)
            /\ UNCHANGED live

\* update(id, secret, key) under any key
TryUpdate(id, secret, key) ==
    /\ UNCHANGED sessionVars
    /\ \E n \in Nonces :
         LET r == update_password_file(D, id, secret, key, n)
         IN /\ fs' = [fs EXCEPT ![StoreDir] = r.d]
            /\ last' = Tried("update", key, r.res)
            /\ UNCHANGED <<nextId, live>>

\* save(E, key) under any key, for the entry list E the index holds
TrySave(key) ==
    /\ UNCHANGED sessionVars
    /\ \E n \in Nonces :
         LET held == load_def_file(D, K1)
             r == save_def_file(D, IF held.ok THEN held.val ELSE <<>>, key, n)
         IN /\ fs' = [fs EXCEPT ![StoreDir] = r.d]
            /\ last' = Tried("save", key, r.res)
            /\ UNCHANGED <<nextId, live>>

KeyNext ==
    \/ \E name \in Names, key \in TryKeys : TryAdd(name, key)
    \/ \E id \in Ids, name \in Names, key \in TryKeys : TryRename(id, name, key)
    \/ \E secret \in Secrets, key \in TryKeys : TryCreate(secret, key)
    \/ \E id \in Ids, secret \in Secrets, key \in TryKeys : TryUpdate(id, secret, key)
    \/ \E key \in TryKeys : TrySave(key)

SpecKey == StoreInit /\ [][KeyNext]_vars

\* ------------------------------------- entries and records of a session
\* The operations of a session that write an index entry and a record, under
\* the session's key. std::fs::write and std::fs::remove_file are calls into
\* the file system: each either happens or fails with an Io error and leaves
\* the file as it was.
SessionKey == K1
IoOutcomes == {"done", "failed"}

\* save_def_file inside a storage call whose write may fail
IoFailed(d) == [res |-> Err("Io"), d |-> d]

\* Screen::PasswordEntry, Enter, is_edit = false: add_entry(..)?, then
\* let _ = update_password_file(new_filename, ..)
create_entry(d, name, secret, key, u, n, w1, w2) ==
    LET added == IF w1 = "failed" THEN IoFailed(d)
                 ELSE add_entry(d, name, key, u, n, n)
    IN IF ~added.res.ok THEN added
       ELSE LET written == IF w2 = "failed" THEN IoFailed(added.d)
                           ELSE update_password_file(added.d, added.res.val,
                                                     secret, key, n)
            IN [res |-> added.res, d |-> written.d]

\* Screen::PasswordEntry, Enter, is_edit = true: let _ = update_password_file,
\* then let _ = update_entry; the handler goes on whatever the two return.
edit_entry(d, filename, name, secret, key, n, w1, w2) ==
    LET written == IF w1 = "failed" THEN IoFailed(d)
                   ELSE update_password_file(d, filename, secret, key, n)
        renamed == IF w2 = "failed" THEN IoFailed(written.d)
                   ELSE update_entry(written.d, filename, name, key, n, n)
    IN [res |-> Ok("unit"), d |-> renamed.d]

\* delete_entry with the outcomes of its two file-system calls: the index is
\* written first (?), and remove_file is called only for a file that exists.
remove_entry(d, filename, key, n, w1, w2) ==
    LET ld == load_def_file(d, key)
    IN IF ~ld.ok THEN [res |-> ld, d |-> d]
       ELSE LET sv == IF w1 = "failed" THEN IoFailed(d)
                      ELSE save_def_file(d, Retain(ld.val, filename), key, n)
            IN IF ~sv.res.ok THEN sv
               ELSE IF HasFile(sv.d, filename) /\ w2 = "failed" THEN IoFailed(sv.d)
               ELSE [res |-> Ok("unit"),
                     d |-> [sv.d EXCEPT !.pwd[filename] = NoFile]]

\* The listing the main screen holds (state.name_to_filename).
Listing == list_decrypted_names(D, SessionKey)

\* Ctrl+E and Ctrl+C on Main: the file name the handler works on.
\* selected_index counts rows from 0; the name of that row of filtered_items
\* is looked up in name_to_filename with iter().find, which yields the first
\* pair bearing the name.
SelectedFilename(name_to_filename, filtered_items, selected_index) ==
    IF filtered_items # <<>> /\ selected_index < Len(filtered_items)
    THEN LET selected_name == filtered_items[selected_index + 1]
             found == {i \in 1..Len(name_to_filename) :
                          name_to_filename[i][2] = selected_name}
         IN IF found = {} THEN None
            ELSE Some(name_to_filename[
                     CHOOSE i \in found : \A j \in found : i <= j][1])
    ELSE None

\* Ctrl+N, a name and a secret typed, Enter
CreateEntry(name, secret, w1, w2) ==
    /\ UNCHANGED sessionVars
    /\ nextId <= MaxIds
    /\ \E n \in Nonces :
         LET r == create_entry(D, name, secret, SessionKey, nextId, n, w1, w2)
         IN /\ fs' = [fs EXCEPT ![StoreDir] = r.d]
            /\ nextId' = IF r.res.ok THEN nextId + 1 ELSE nextId
            /\ live' = IF r.res.ok THEN Append(live, <<nextId, name>>) ELSE live
            /\ last' = Call("create_entry", nextId, name, SessionKey, r.res,
                            Had(w1 = "done", w2 = "done"))

\* Ctrl+E on the selected name (the first entry of the listing bearing it),
\* the fields changed, Enter
EditEntry(selected, name, secret, w1, w2) ==
    /\ UNCHANGED sessionVars
    /\ Listing.ok
    /\ \E i \in 1..Len(Listing.val), n \in Nonces :
         /\ Listing.val[i][2] = selected
         /\ \A j \in 1..(i - 1) : Listing.val[j][2] # selected
         /\ LET id == Listing.val[i][1]
                r == edit_entry(D, id, name, secret, SessionKey, n, w1, w2)
            IN /\ fs' = [fs EXCEPT ![StoreDir] = r.d]
               /\ live' = IF w2 = "done" THEN LiveRename(live, id, name) ELSE live
               /\ last' = Call("edit_entry", id, name, SessionKey, r.res,
                               Had(w1 = "done", w2 = "done"))
               /\ UNCHANGED nextId

\* remove of an id the listing holds
RemoveEntry(id, w1, w2) ==
    /\ UNCHANGED sessionVars
    /\ Listing.ok /\ HasId(Listing.val, id)
    /\ \E n \in Nonces :
         LET r == remove_entry(D, id, SessionKey, n, w1, w2)
         IN /\ fs' = [fs EXCEPT ![StoreDir] = r.d]
            /\ live' = IF w1 = "done" THEN LiveRemove(live, id) ELSE live
            /\ last' = Call("remove_entry", id, "none", SessionKey, r.res,
                            Had(w1 = "done", w2 = "done"))
            /\ UNCHANGED nextId

PairNext ==
    \/ \E name \in Names, secret \in Secrets, w1 \in IoOutcomes, w2 \in IoOutcomes :
          CreateEntry(name, secret, w1, w2)
    \/ \E selected \in Names, name \in Names, secret \in Secrets,
          w1 \in IoOutcomes, w2 \in IoOutcomes :
          EditEntry(selected, name, secret, w1, w2)
    \/ \E id \in Ids, w1 \in IoOutcomes, w2 \in IoOutcomes : RemoveEntry(id, w1, w2)

SpecPair == StoreInit /\ [][PairNext]_vars

\* ------------------------------------------------------ the record codec
\* The record files these runs write, damage and read.
RecordIds == {1, 2}

\* A record file as the engine wrote it.
RecordIntact(f) ==
    /\ f.kind = "json"
    /\ f.encrypted_password.wf /\ f.nonce.wf
    /\ ~f.encrypted_password.bytes.flip
    /\ f.nonce.bytes.v = f.encrypted_password.bytes.n
    /\ f.nonce.bytes.len = NonceLen

\* update(id, S, K) on any record id; the result is kept also on failure.
WriteRecord(id, secret, key) ==
    /\ UNCHANGED sessionVars
    /\ \E n \in Nonces :
        LET r == update_password_file(D, id, secret, key, n)
        IN /\ fs' = [fs EXCEPT ![StoreDir] = r.d]
           /\ last' = Call("update", id, secret, key, r.res,
                           Had(FALSE, HasFile(D, id)))
           /\ UNCHANGED <<nextId, live>>

\* A record file changes outside the program: a bit of the ciphertext or of
\* the nonce, the nonce loses a byte, a base64 text gets a character outside
\* the alphabet, the JSON loses its shape, a byte stops being UTF-8, or the
\* file is removed.
CorruptRecord(id, how) ==
    /\ UNCHANGED sessionVars
    /\ RecordIntact(D.pwd[id])
    /\ fs' = [fs EXCEPT ![StoreDir].pwd[id] =
                 CASE how = "ciphertext" ->
                          [D.pwd[id] EXCEPT !.encrypted_password.bytes.flip = TRUE]
                   [] how = "nonce" -> [D.pwd[id] EXCEPT !.nonce.bytes.v = 0]
                   [] how = "noncelen" ->
                          [D.pwd[id] EXCEPT !.nonce.bytes.len = NonceLen - 1]
                   [] how = "base64ct" ->
                          [D.pwd[id] EXCEPT !.encrypted_password.wf = FALSE]
                   [] how = "base64nonce" -> [D.pwd[id] EXCEPT !.nonce.wf = FALSE]
                   [] how = "json" -> [kind |-> "badjson"]
                   [] how = "utf8" -> [kind |-> "notutf8"]
                   [] OTHER -> NoFile]
    /\ last' = Call("corrupt", id, how, K1, Ok("unit"), Had(FALSE, TRUE))
    /\ UNCHANGED <<nextId, live>>

RecordDamage ==
    {"ciphertext", "nonce", "noncelen", "base64ct", "base64nonce", "json",
     "utf8", "remove"}

RecordNext ==
    \/ \E id \in RecordIds, secret \in Secrets, key \in AllKeys :
           WriteRecord(id, secret, key)
    \/ \E id \in RecordIds, how \in RecordDamage : CorruptRecord(id, how)
    \/ \E id \in RecordIds, key \in AllKeys : Read(id, key)

SpecRecord == StoreInit /\ [][RecordNext]_vars

\* -------------------------------------------------- the session's key presses
\* The event loop handles a key while the session runs, by screen.
OnScreen(screen) == ~state.should_quit /\ state.current_screen = screen

\* The names Main shows: those of storage.list_decrypted_names, or none when
\* the index cannot be read.
ItemsOf(names) ==
    IF names.ok THEN [i \in 1..Len(names.val) |-> names.val[i][2]] ELSE <<>>

\* The tail of the Enter handler of the master-password screen, reached from
\* every branch that does not `continue`: load the directory config, take
\* its salt or draw and save a new one, derive the key from
\* master_password_input, clear the inputs, list the names and show Main.
\* st, cfg, files and dir are state, config, file system and storage as the
\* branch left them.
DeriveKeyAndOpen(st, cfg, files, dir) ==
    LET passwords_dir == passwords_directory_path(cfg)
        dir_config == DirectoryConfig_load(files, passwords_dir)
        stored == dir_config.encryption_key_salt
    IN \E fresh \in Salts :
        LET salt == IF stored.some THEN SaltDecode(stored.v) ELSE Ok(fresh)
            files2 == IF stored.some THEN files
                      ELSE DirectoryConfig_save(files, passwords_dir,
                               [dir_config EXCEPT
                                   !.encryption_key_salt = Some(SaltEncode(fresh))])
            key == derive_key(st.master_password_input, salt.val)
        IN IF ~salt.ok
           THEN /\ state' = [st EXCEPT !.should_quit = TRUE]
                /\ config' = cfg /\ fs' = files /\ storage' = dir
                /\ UNCHANGED view
                \* `?` returns from run_tui: the state is dropped as it is
                /\ memory' = [memory EXCEPT
                       !.freed = Max(memory.master_password_input,
                                     memory.master_password_confirm),
                       !.returned = "err"]
           ELSE /\ state' = [st EXCEPT
                       !.encryption_key = Some(key.val),
                       !.master_password_input = <<>>,
                       !.master_password_confirm = <<>>,
                       !.all_items = ItemsOf(list_decrypted_names(files2[dir], key.val)),
                       !.current_screen = "Main"]
                /\ config' = cfg /\ fs' = files2 /\ storage' = dir
                \* Ok(names): name_to_filename and filtered_items are set;
                \* Err(_): filtered_items is emptied; select(Some(0)) when
                \* filtered_items is not empty
                /\ LET names == list_decrypted_names(files2[dir], key.val)
                   IN view' = [view EXCEPT
                          !.name_to_filename = IF names.ok THEN names.val ELSE @,
                          !.filtered_items = ItemsOf(names),
                          !.list_state = IF ItemsOf(names) # <<>> THEN Some(0) ELSE @]
                \* master_password_input.zeroize(), master_password_confirm.zeroize()
                /\ memory' = [memory EXCEPT !.master_password_input = 0,
                                            !.master_password_confirm = 0]

\* Screen::MasterPassword, KeyCode::Enter
MasterPasswordEnter ==
    /\ OnScreen("MasterPassword")
    /\ UNCHANGED <<clipVars, writers, help_from, shutdown, nextId, last, live>>
    /\ IF state.is_creating_master_password
       THEN IF state.master_password_field = 0
            THEN LET cfg1 == [config EXCEPT !.passwords_directory =
                                  DirectoryOfInput(state.passwords_dir_input)]
                 IN DeriveKeyAndOpen([state EXCEPT !.master_password_field = 1],
                                     cfg1, fs, passwords_directory_path(cfg1))
            ELSE IF state.master_password_field = 1
            THEN DeriveKeyAndOpen([state EXCEPT !.master_password_field = 2],
                                  config, fs, storage)
            ELSE IF state.master_password_input # state.master_password_confirm
            THEN /\ state' = [state EXCEPT !.master_password_input = <<>>,
                                           !.master_password_confirm = <<>>,
                                           !.master_password_field = 1]
                 /\ UNCHANGED <<fs, config, storage, memory, view>>
            ELSE LET cfg1 == [config EXCEPT !.passwords_directory =
                                  DirectoryOfInput(state.passwords_dir_input)]
                     passwords_dir == passwords_directory_path(cfg1)
                     dir_config == DirectoryConfig_load(fs, passwords_dir)
                     hash == hash_password(state.master_password_input)
                 IN \E fresh \in Salts :
                      LET salted ==
                              [master_password_hash |-> Some(hash.val),
                               encryption_key_salt |->
                                   IF dir_config.encryption_key_salt.some
                                   THEN dir_config.encryption_key_salt
                                   ELSE Some(SaltEncode(fresh))]
                      IN DeriveKeyAndOpen(state, cfg1,
                             DirectoryConfig_save(fs, passwords_dir, salted),
                             passwords_dir)
       ELSE LET dir_config == DirectoryConfig_load(fs, passwords_directory_path(config))
                stored_hash == dir_config.master_password_hash
            IN IF stored_hash.some
                  /\ verify_password(state.master_password_input, stored_hash.v) = Ok(TRUE)
               THEN DeriveKeyAndOpen(state, config, fs, storage)
               ELSE /\ state' = [state EXCEPT !.master_password_input = <<>>]
                    /\ UNCHANGED <<fs, config, storage, memory, view>>

\* Screen::MasterPassword, F1
MasterPasswordF1 ==
    /\ OnScreen("MasterPassword")
    /\ state' = [state EXCEPT !.current_screen = "Help"]
    /\ help_from' = "MasterPassword"
    /\ UNCHANGED <<clipVars, writers, memory, view, shutdown, fs, nextId, last, live, config, storage>>

\* Screen::MasterPassword, KeyCode::Up
MasterPasswordUp ==
    /\ OnScreen("MasterPassword")
    /\ state.is_creating_master_password
    /\ state' = [state EXCEPT !.master_password_field =
                    IF @ > 0 THEN @ - 1 ELSE 2]
    /\ UNCHANGED <<clipVars, writers, memory, auxVars, fs, nextId, last, live, config, storage>>

\* Screen::MasterPassword, KeyCode::Down
MasterPasswordDown ==
    /\ OnScreen("MasterPassword")
    /\ state.is_creating_master_password
    /\ state' = [state EXCEPT !.master_password_field = (@ + 1) % 3]
    /\ UNCHANGED <<clipVars, writers, memory, auxVars, fs, nextId, last, live, config, storage>>

\* Screen::MasterPassword, KeyCode::Esc
MasterPasswordEsc ==
    /\ OnScreen("MasterPassword")
    /\ state' = [state EXCEPT !.should_quit = TRUE]
    \* shutdown_tx.send(())
    /\ shutdown' = [shutdown EXCEPT !.version = @ + 1]
    /\ UNCHANGED <<clipVars, writers, memory, view, help_from, fs, nextId, last, live, config, storage>>

\* Screen::MasterPassword, KeyCode::Backspace
MasterPasswordBackspace ==
    /\ OnScreen("MasterPassword")
    /\ state' =
         IF state.is_creating_master_password /\ state.master_password_field = 0
         THEN [state EXCEPT !.passwords_dir_input = Pop(@)]
         ELSE IF state.is_creating_master_password /\ state.master_password_field = 2
         THEN [state EXCEPT !.master_password_confirm = Pop(@)]
         ELSE [state EXCEPT !.master_password_input = Pop(@)]
    /\ UNCHANGED <<clipVars, writers, memory, auxVars, fs, nextId, last, live, config, storage>>

\* Screen::MasterPassword, KeyCode::Char(c) without Ctrl; the text fields
\* take at most MaxInput characters here.
MasterPasswordChar ==
    /\ OnScreen("MasterPassword")
    /\ IF state.is_creating_master_password /\ state.master_password_field = 0
       THEN \E c \in DirChars :
              /\ Len(state.passwords_dir_input) < MaxInput
              /\ state' = [state EXCEPT !.passwords_dir_input = Append(@, c)]
              /\ UNCHANGED memory
       ELSE IF state.is_creating_master_password /\ state.master_password_field = 2
       THEN \E c \in PwChars :
              /\ Len(state.master_password_confirm) < MaxInput
              /\ state' = [state EXCEPT !.master_password_confirm = Append(@, c)]
              /\ memory' = [memory EXCEPT !.master_password_confirm =
                                Pushed(@, Len(state.master_password_confirm))]
       ELSE \E c \in PwChars :
              /\ Len(state.master_password_input) < MaxInput
              /\ state' = [state EXCEPT !.master_password_input = Append(@, c)]
              /\ memory' = [memory EXCEPT !.master_password_input =
                                Pushed(@, Len(state.master_password_input))]
    /\ UNCHANGED <<clipVars, writers, auxVars, fs, nextId, last, live, config, storage>>

\* Screen::Main, Ctrl+Q
MainQuit ==
    /\ OnScreen("Main")
    /\ state' = [state EXCEPT !.should_quit = TRUE]
    \* shutdown_tx.send(())
    /\ shutdown' = [shutdown EXCEPT !.version = @ + 1]
    /\ UNCHANGED <<clipVars, writers, memory, view, help_from, fs, nextId, last, live, config, storage>>

\* Screen::Main, F1
MainF1 ==
    /\ OnScreen("Main")
    /\ state' = [state EXCEPT !.current_screen = "Help"]
    /\ help_from' = "Main"
    /\ UNCHANGED <<clipVars, writers, memory, view, shutdown, fs, nextId, last, live, config, storage>>

\* Screen::Main, Ctrl+S or F2
MainSettings ==
    /\ OnScreen("Main")
    /\ state' = [state EXCEPT !.current_screen = "Settings"]
    /\ UNCHANGED <<clipVars, writers, memory, auxVars, fs, nextId, last, live, config, storage>>

\* Screen::Help, Esc or F1
HelpClose ==
    /\ OnScreen("Help")
    /\ state' = [state EXCEPT !.current_screen = "Main"]
    /\ help_from' = "none"
    /\ UNCHANGED <<clipVars, writers, memory, view, shutdown, fs, nextId, last, live, config, storage>>

\* The Settings exit without its `state.encryption_key = None`.
LeaveSettings_keepkey ==
    LET cfg1 == [config EXCEPT !.passwords_directory =
                     DirectoryOfInput(state.passwords_dir_input)]
        passwords_dir == passwords_directory_path(cfg1)
        dir_config == DirectoryConfig_load(fs, passwords_dir)
    IN /\ config' = cfg1
       /\ storage' = passwords_dir
       /\ state' = [state EXCEPT
                       !.master_password_input = <<>>,
                       !.master_password_confirm = <<>>,
                       !.master_password_field = 0,
                       !.is_creating_master_password = ~has_master_password(dir_config),
                       !.current_screen = "MasterPassword"]
       /\ UNCHANGED <<clipVars, writers, memory, auxVars, fs, nextId, last, live>>

\* Saving the settings and leaving: the directory of the form becomes the
\* configured one, the storage is rebuilt, the key is dropped and the
\* master-password screen opens, in create mode when the directory has no
\* hash.
LeaveSettings ==
    LET cfg1 == [config EXCEPT !.passwords_directory =
                     DirectoryOfInput(state.passwords_dir_input)]
        passwords_dir == passwords_directory_path(cfg1)
        dir_config == DirectoryConfig_load(fs, passwords_dir)
    IN /\ config' = cfg1
       /\ storage' = passwords_dir
       /\ state' = [state EXCEPT
                       !.master_password_input = <<>>,
                       !.master_password_confirm = <<>>,
                       !.master_password_field = 0,
                       !.is_creating_master_password = ~has_master_password(dir_config),
                       !.encryption_key = None,
                       !.current_screen = "MasterPassword"]
       /\ UNCHANGED <<clipVars, writers, memory, auxVars, fs, nextId, last, live>>

\* Screen::Settings, Esc or 'q'
SettingsEsc == OnScreen("Settings") /\ LeaveSettings

\* Screen::Settings, KeyCode::Enter
SettingsEnter ==
    /\ OnScreen("Settings")
    /\ IF state.settings_field = 2
       THEN /\ state' = [state EXCEPT !.current_screen = "ThemeSelection"]
            /\ UNCHANGED <<clipVars, writers, memory, auxVars, fs, nextId, last, live, config, storage>>
       ELSE IF state.settings_field = 3
       THEN /\ state' = [state EXCEPT !.current_screen = "LanguageSelection"]
            /\ UNCHANGED <<clipVars, writers, memory, auxVars, fs, nextId, last, live, config, storage>>
       ELSE LeaveSettings

\* Screen::Settings, F1
SettingsF1 ==
    /\ OnScreen("Settings")
    /\ state' = [state EXCEPT !.current_screen = "Help"]
    /\ help_from' = "Settings"
    /\ UNCHANGED <<clipVars, writers, memory, view, shutdown, fs, nextId, last, live, config, storage>>

\* Screen::Settings, KeyCode::Up
SettingsUp ==
    /\ OnScreen("Settings")
    /\ state' = [state EXCEPT !.settings_field = IF @ > 0 THEN @ - 1 ELSE 3]
    /\ UNCHANGED <<clipVars, writers, memory, auxVars, fs, nextId, last, live, config, storage>>

\* Screen::Settings, KeyCode::Down
SettingsDown ==
    /\ OnScreen("Settings")
    /\ state' = [state EXCEPT !.settings_field = (@ + 1) % 4]
    /\ UNCHANGED <<clipVars, writers, memory, auxVars, fs, nextId, last, live, config, storage>>

\* Screen::Settings, KeyCode::Backspace on the directory field
SettingsBackspace ==
    /\ OnScreen("Settings")
    /\ state.settings_field = 0
    /\ state' = [state EXCEPT !.passwords_dir_input = Pop(@)]
    /\ UNCHANGED <<clipVars, writers, memory, auxVars, fs, nextId, last, live, config, storage>>

\* Screen::Settings, KeyCode::Char(c) on the directory field
SettingsChar ==
    /\ OnScreen("Settings")
    /\ state.settings_field = 0
    /\ \E c \in DirChars :
          /\ Len(state.passwords_dir_input) < MaxInput
          /\ state' = [state EXCEPT !.passwords_dir_input = Append(@, c)]
    /\ UNCHANGED <<clipVars, writers, memory, auxVars, fs, nextId, last, live, config, storage>>

\* Screen::ThemeSelection and Screen::LanguageSelection, Esc or Enter: back
\* to the settings.
SelectionClose ==
    /\ \/ OnScreen("ThemeSelection")
       \/ OnScreen("LanguageSelection")
    /\ state' = [state EXCEPT !.current_screen = "Settings"]
    /\ UNCHANGED <<clipVars, writers, memory, auxVars, fs, nextId, last, live, config, storage>>

\* Screen::ThemeSelection and Screen::LanguageSelection, F1
SelectionF1 ==
    /\ \/ OnScreen("ThemeSelection")
       \/ OnScreen("LanguageSelection")
    /\ state' = [state EXCEPT !.current_screen = "Help"]
    /\ help_from' = state.current_screen
    /\ UNCHANGED <<clipVars, writers, memory, view, shutdown, fs, nextId, last, live, config, storage>>

\* The program is started again after its loop ended: main loads the saved
\* Config and run_tui builds storage and state from it.
Launch ==
    /\ state.should_quit /\ memory.returned # "no"
    /\ state' = InitState(config, fs)
    /\ storage' = passwords_directory_path(config)
    /\ memory' = CleanMemory
    /\ view' = NoView
    /\ help_from' = "none"
    /\ shutdown' = Serving
    /\ UNCHANGED <<clipVars, writers, fs, nextId, last, live, config>>

\* handle.abort(): it takes effect on a task that is at its await
Abort(ts, handle) ==
    IF handle.some /\ ts[handle.v] = "sleeping"
    THEN [ts EXCEPT ![handle.v] = "aborted"]
    ELSE ts

\* should_quit ended the loop: the clear task is aborted, the key and the
\* password buffers are zeroized, run_tui returns Ok.
Exit ==
    /\ state.should_quit /\ memory.returned = "no"
    /\ tasks' = Abort(tasks, clipboard_cleanup_handle)
    /\ state' = [state EXCEPT !.encryption_key = None]
    /\ memory' = [memory EXCEPT !.master_password_input = 0,
                                !.master_password_confirm = 0,
                                !.returned = "ok"]
    /\ UNCHANGED <<clipboard, clipboard_cleanup_handle, copy_pc, writers, auxVars, fs,
                   nextId, last, live, config, storage>>

Next ==
    \/ MasterPasswordEnter \/ MasterPasswordF1 \/ MasterPasswordUp
    \/ MasterPasswordDown \/ MasterPasswordEsc \/ MasterPasswordBackspace
    \/ MasterPasswordChar
    \/ MainQuit \/ MainF1 \/ MainSettings
    \/ HelpClose
    \/ SettingsEsc \/ SettingsEnter \/ SettingsF1 \/ SettingsUp \/ SettingsDown
    \/ SettingsBackspace \/ SettingsChar
    \/ SelectionClose \/ SelectionF1
    \/ Launch
    \/ Exit

Spec == StoreInit /\ [][Next]_vars

\* ------------------------------------------ clipboard copy and its clear
\* run_tui is spawned on the multi-threaded runtime of #[tokio::main] and its
\* loop never awaits; a clear task runs on another worker. The task is
\*     sleep(timeout).await; clipboard.lock().set_text("")
\* and JoinHandle::abort cancels a task at an await only: a task that has
\* returned from its sleep runs on to the end.
ClipboardTimeouts == {0, 30}

\* A vault with two entries and their records, as a session left it.
ClipDir ==
    create_entry(create_entry(EmptyDir, "Gmail", "s1", SessionKey, 1, 1,
                              "done", "done").d,
                 "Bank", "s2", SessionKey, 2, 1, "done", "done").d

\* The session is unlocked and shows the main screen.
ClipInit ==
    /\ fs = [dir \in Dirs |-> IF dir = StoreDir THEN ClipDir ELSE EmptyDir]
    /\ nextId = 3
    /\ last = NoCall
    /\ live = <<<<1, "Gmail">>, <<2, "Bank">>>>
    /\ config = DefaultConfig
    /\ storage = passwords_directory_path(DefaultConfig)
    /\ state = [InitState(DefaultConfig, [dir \in Dirs |-> EmptyDir]) EXCEPT
                   !.current_screen = "Main",
                   !.is_creating_master_password = FALSE,
                   !.encryption_key = Some(SessionKey),
                   !.all_items = <<"Gmail", "Bank">>]
    /\ clipboard = NoText
    /\ tasks = [t \in Copies |-> "unborn"]
    /\ clipboard_cleanup_handle = None
    /\ copy_pc = Idle(0)
    /\ writers = [w \in Writers |-> NotWriting]
    /\ memory = CleanMemory
    /\ view = NoView
    /\ help_from = "none"
    /\ shutdown = Serving

\* Ctrl+C on the selected name: the previous handle is taken and aborted,
\* then the record is loaded.
CopyBegin(selected) ==
    /\ OnScreen("Main") /\ state.encryption_key.some
    /\ copy_pc.at = "idle" /\ copy_pc.n < MaxCopies
    /\ Listing.ok
    /\ \E i \in 1..Len(Listing.val) :
         /\ Listing.val[i][2] = selected
         /\ \A j \in 1..(i - 1) : Listing.val[j][2] # selected
         /\ LET password == load_password_file(D, Listing.val[i][1],
                                               state.encryption_key.v)
            IN copy_pc' = IF password.ok
                          THEN [at |-> "loaded", text |-> password.val,
                                n |-> copy_pc.n + 1]
                          ELSE copy_pc
    /\ tasks' = Abort(tasks, clipboard_cleanup_handle)
    /\ clipboard_cleanup_handle' = None
    /\ UNCHANGED <<clipboard, storeVars, writers, memory, auxVars, state, config, storage>>

\* clipboard.lock().set_text(&password); on failure the handler gives up
CopySetText(set) ==
    /\ copy_pc.at = "loaded"
    /\ IF set
       THEN /\ clipboard' = Text(copy_pc.text, copy_pc.n)
            /\ copy_pc' = [copy_pc EXCEPT !.at = "set"]
       ELSE /\ copy_pc' = Idle(copy_pc.n)
            /\ UNCHANGED clipboard
    /\ UNCHANGED <<tasks, clipboard_cleanup_handle, storeVars, writers, memory, auxVars, state, config, storage>>

\* if timeout_seconds > 0 the clear task is spawned and its handle kept
CopySchedule(timeout_seconds) ==
    /\ copy_pc.at = "set"
    /\ IF timeout_seconds > 0
       THEN /\ tasks' = [tasks EXCEPT ![copy_pc.n] = "sleeping"]
            /\ clipboard_cleanup_handle' = Some(copy_pc.n)
       ELSE UNCHANGED <<tasks, clipboard_cleanup_handle>>
    /\ copy_pc' = Idle(copy_pc.n)
    /\ UNCHANGED <<clipboard, storeVars, writers, memory, auxVars, state, config, storage>>

\* the sleep of task t is over and the task goes on
TimerElapses(t) ==
    /\ tasks[t] = "sleeping"
    /\ tasks' = [tasks EXCEPT ![t] = "running"]
    /\ UNCHANGED <<clipboard, clipboard_cleanup_handle, copy_pc, storeVars,
                   writers, memory, auxVars, state, config, storage>>

\* task t locks the clipboard and sets the empty text
ClearClipboard(t) ==
    /\ tasks[t] = "running"
    /\ tasks' = [tasks EXCEPT ![t] = "done"]
    /\ clipboard' = Text("", clipboard.copy)
    /\ UNCHANGED <<clipboard_cleanup_handle, copy_pc, storeVars, writers, memory, auxVars, state, config, storage>>

ClipNext ==
    \/ \E selected \in Names : CopyBegin(selected)
    \/ \E set \in BOOLEAN : CopySetText(set)
    \/ \E timeout_seconds \in ClipboardTimeouts : CopySchedule(timeout_seconds)
    \/ \E t \in Copies : TimerElapses(t)
    \/ \E t \in Copies : ClearClipboard(t)

SpecClip == ClipInit /\ [][ClipNext]_vars

\* The copying session with its end: Ctrl+Q on Main and the cleanup after
\* the loop, which aborts the clear task the handle names.
ClipExitNext == ClipNext \/ MainQuit \/ Exit
SpecClipExit == ClipInit /\ [][ClipExitNext]_vars

\* ------------------------------------------- the master password's hash
\* hash_password and verify_password as the session uses them: the hash is
\* kept in .rpm_config of the vault directory and verified against at unlock.
\* The file may be edited outside the program, which can leave a string
\* that is no PHC hash.
HashChars == {"p", "q"}
\* passwords are one character longer than the texts typed elsewhere
Passwords == UNION {[1..k -> HashChars] : k \in 0..(MaxInput + 1)}
HashCall(op, password, hash, res) ==
    [op |-> op, password |-> password, hash |-> hash, res |-> res]
StoredHash == DirectoryConfig_load(fs, StoreDir).master_password_hash

\* a master password is set: its hash is written to .rpm_config
SetMasterPassword(password) ==
    /\ UNCHANGED <<nextId, live, sessionVars>>
    /\ LET hash == hash_password(password)
           dir_config == DirectoryConfig_load(fs, StoreDir)
       IN /\ fs' = IF hash.ok
                   THEN DirectoryConfig_save(fs, StoreDir,
                            [dir_config EXCEPT !.master_password_hash = Some(hash.val)])
                   ELSE fs
          /\ last' = HashCall("hash", password, hash.val, hash)

\* the stored hash string is damaged
DamageHash ==
    /\ UNCHANGED <<nextId, live, last, sessionVars>>
    /\ StoredHash.some /\ StoredHash.v.phc
    /\ fs' = DirectoryConfig_save(fs, StoreDir,
                 [DirectoryConfig_load(fs, StoreDir) EXCEPT
                     !.master_password_hash = Some([StoredHash.v EXCEPT !.phc = FALSE])])

\* a password is verified against the stored hash string
VerifyMasterPassword(password) ==
    /\ UNCHANGED <<fs, nextId, live, sessionVars>>
    /\ StoredHash.some
    /\ last' = HashCall("verify", password, StoredHash.v,
                        verify_password(password, StoredHash.v))

HashNext ==
    \/ \E password \in Passwords : SetMasterPassword(password)
    \/ DamageHash
    \/ \E password \in Passwords : VerifyMasterPassword(password)

SpecHash == StoreInit /\ [][HashNext]_vars

\* ------------------------------------------ a second process on the vault
\* Another rpm process opens a directory that has no master password yet and
\* runs its own create form to the end: hash and salt are written to the
\* directory's .rpm_config.
OtherProcessProvisions(dir, password) ==
    /\ ~has_master_password(DirectoryConfig_load(fs, dir))
    /\ \E fresh \in Salts :
         LET dir_config == DirectoryConfig_load(fs, dir)
         IN fs' = DirectoryConfig_save(fs, dir,
                      [master_password_hash |-> Some(hash_password(password).val),
                       encryption_key_salt |->
                           IF dir_config.encryption_key_salt.some
                           THEN dir_config.encryption_key_salt
                           ELSE Some(SaltEncode(fresh))])
    /\ UNCHANGED <<nextId, last, live, sessionVars>>

SharedNext ==
    \/ Next
    \/ \E dir \in Dirs, password \in Strings(PwChars) :
          OtherProcessProvisions(dir, password)

SpecShared == StoreInit /\ [][SharedNext]_vars

\* ------------------------------------------------ two writers of one index
\* Two processes hold the same key and call add_entry on one directory.
\* add_entry reads the index file once (load_def_file) and writes it once
\* (save_def_file); between the two the other process may run.
\* add_entry up to the push: the index is loaded, the name encrypted, the
\* id drawn and the entry appended to the loaded list
AddLoad(w, name) ==
    /\ writers[w].pc = "idle"
    /\ nextId <= MaxIds
    /\ \E n \in Nonces :
         LET ld == load_def_file(D, SessionKey)
             en == encrypt_filename(name, SessionKey, n)
             entry == [encrypted_filename |-> nextId,
                       encrypted_name |-> en.val.encrypted_name,
                       nonce |-> en.val.nonce]
         IN /\ ld.ok /\ en.ok
            /\ writers' = [writers EXCEPT ![w] =
                              [pc |-> "loaded", id |-> nextId, name |-> name,
                               entries |-> Append(ld.val, entry)]]
    /\ nextId' = nextId + 1
    /\ UNCHANGED <<fs, last, live, state, config, storage, clipVars, memory, auxVars>>

\* add_entry from save_def_file on: the whole list is written, Ok(filename)
AddSave(w) ==
    /\ writers[w].pc = "loaded"
    /\ \E n \in Nonces :
         LET sv == save_def_file(D, writers[w].entries, SessionKey, n)
         IN /\ sv.res.ok
            /\ fs' = [fs EXCEPT ![StoreDir] = sv.d]
    /\ live' = Append(live, <<writers[w].id, writers[w].name>>)
    /\ last' = Call("add", writers[w].id, writers[w].name, SessionKey,
                    Ok(writers[w].id), Had(HasName(live, writers[w].name), FALSE))
    /\ writers' = [writers EXCEPT ![w] = NotWriting]
    /\ UNCHANGED <<nextId, state, config, storage, clipVars, memory, auxVars>>

\* delete_entry up to the retain: the index is loaded and the entry dropped
\* from the loaded list
RemoveLoad(w, id) ==
    /\ writers[w].pc = "idle"
    /\ id < nextId
    /\ LET ld == load_def_file(D, SessionKey)
       IN /\ ld.ok
          /\ writers' = [writers EXCEPT ![w] =
                            [pc |-> "retained", id |-> id, name |-> "none",
                             entries |-> Retain(ld.val, id)]]
    /\ UNCHANGED <<fs, nextId, last, live, state, config, storage, clipVars, memory, auxVars>>

\* delete_entry from save_def_file on: the whole list is written and the
\* record file removed if it exists
RemoveSave(w) ==
    /\ writers[w].pc = "retained"
    /\ \E n \in Nonces :
         LET sv == save_def_file(D, writers[w].entries, SessionKey, n)
         IN /\ sv.res.ok
            /\ fs' = [fs EXCEPT ![StoreDir] =
                         [sv.d EXCEPT !.pwd[writers[w].id] = NoFile]]
    /\ live' = LiveRemove(live, writers[w].id)
    /\ last' = Call("remove", writers[w].id, "none", SessionKey, Ok("unit"),
                    Had(HasId(live, writers[w].id), HasFile(D, writers[w].id)))
    /\ writers' = [writers EXCEPT ![w] = NotWriting]
    /\ UNCHANGED <<nextId, state, config, storage, clipVars, memory, auxVars>>

WritersNext ==
    \/ \E w \in Writers, name \in Names : AddLoad(w, name)
    \/ \E w \in Writers : AddSave(w)
    \/ \E w \in Writers, id \in Ids : RemoveLoad(w, id)
    \/ \E w \in Writers : RemoveSave(w)

SpecWriters == StoreInit /\ [][WritersNext]_vars

\* ------------------------------------------- file writes and a stopped process
\* std::fs::write(path, bytes) is File::create (the file is truncated to
\* length zero) followed by write_all; std::fs::remove_file is one call. A
\* storage operation is the sequence of directory contents its file-system
\* calls leave behind, and the process may stop after any of them.
\* A zero-length index file is shorter than a nonce; a zero-length record
\* file is no JSON.
TruncatedDef(d) == [d EXCEPT !.def = [kind |-> "short"]]
TruncatedPwd(d, filename) == [d EXCEPT !.pwd[filename] = [kind |-> "badjson"]]

\* std::fs::write of the index file, from d to the directory holding it whole
WriteDefSteps(d, written) == <<TruncatedDef(d), written>>

add_entry_steps(d, name, key, u, n1, n2) ==
    LET r == add_entry(d, name, key, u, n1, n2)
    IN IF r.res.ok THEN WriteDefSteps(d, r.d) ELSE <<>>

update_entry_steps(d, filename, new_name, key, n1, n2) ==
    LET r == update_entry(d, filename, new_name, key, n1, n2)
    IN IF r.res.ok THEN WriteDefSteps(d, r.d) ELSE <<>>

update_password_file_steps(d, filename, password, key, n) ==
    LET r == update_password_file(d, filename, password, key, n)
    IN IF r.res.ok THEN <<TruncatedPwd(d, filename), r.d>> ELSE <<>>

\* Faulty variant of delete_entry_steps: the record file is removed before
\* the index is saved.
delete_entry_steps_filefirst(d, filename, key, n) ==
    LET ld == load_def_file(d, key)
        gone == [d EXCEPT !.pwd[filename] = NoFile]
        sv == save_def_file(gone, Retain(ld.val, filename), key, n)
    IN IF ~ld.ok \/ ~sv.res.ok THEN <<>>
       ELSE (IF HasFile(d, filename) THEN <<gone>> ELSE <<>>)
            \o WriteDefSteps(gone, sv.d)

\* delete_entry: the index is written without the entry, then the record
\* file is removed if it exists.
delete_entry_steps(d, filename, key, n) ==
    LET ld == load_def_file(d, key)
        sv == save_def_file(d, Retain(ld.val, filename), key, n)
    IN IF ~ld.ok \/ ~sv.res.ok THEN <<>>
       ELSE WriteDefSteps(d, sv.d)
            \o (IF HasFile(sv.d, filename)
                THEN <<[sv.d EXCEPT !.pwd[filename] = NoFile]>> ELSE <<>>)

\* The one process of this specification and its operation in progress:
\* steps are the directory contents still to come, from is the directory
\* the operation started on.
Proc == "A"
Running(op, id, arg, from, steps) ==
    [pc |-> "running", op |-> op, id |-> id, arg |-> arg, from |-> from,
     to |-> steps[Len(steps)], steps |-> steps]
Start(op, id, arg, steps) ==
    /\ writers[Proc].pc = "idle"
    /\ steps # <<>>
    /\ writers' = [writers EXCEPT ![Proc] = Running(op, id, arg, D, steps)]
    /\ UNCHANGED <<fs, last, live, state, config, storage, clipVars, memory, auxVars>>

StartAdd(name) ==
    /\ nextId <= MaxIds
    /\ \E n \in Nonces :
         Start("add", nextId, name, add_entry_steps(D, name, SessionKey, nextId, n, n))
    /\ nextId' = nextId + 1

StartRename(id, name) ==
    /\ id < nextId
    /\ \E n \in Nonces :
         Start("rename", id, name, update_entry_steps(D, id, name, SessionKey, n, n))
    /\ UNCHANGED nextId

StartRemove(id) ==
    /\ id < nextId
    /\ \E n \in Nonces :
         Start("remove", id, "none", delete_entry_steps(D, id, SessionKey, n))
    /\ UNCHANGED nextId

StartUpdate(id, secret) ==
    /\ id < nextId
    /\ \E n \in Nonces :
         Start("update", id, secret,
               update_password_file_steps(D, id, secret, SessionKey, n))
    /\ UNCHANGED nextId

\* the next file-system call of the operation in progress happens
FileStep ==
    /\ writers[Proc].pc = "running"
    /\ writers[Proc].steps # <<>>
    /\ fs' = [fs EXCEPT ![StoreDir] = Head(writers[Proc].steps)]
    /\ writers' = [writers EXCEPT ![Proc].steps = Tail(@)]
    /\ UNCHANGED <<nextId, last, live, state, config, storage, clipVars, memory, auxVars>>

\* the operation returns Ok
Return ==
    LET w == writers[Proc]
    IN /\ w.pc = "running" /\ w.steps = <<>>
       /\ writers' = [writers EXCEPT ![Proc] = NotWriting]
       /\ UNCHANGED <<fs, nextId, last, live, state, config, storage, clipVars, memory, auxVars>>

\* the process stops in the middle of the operation; the files stay as
\* they are and a new process starts on them
Stop ==
    LET w == writers[Proc]
    IN /\ w.pc = "running"
       /\ writers' = [writers EXCEPT ![Proc] = NotWriting]
       /\ UNCHANGED <<fs, nextId, last, live, state, config, storage, clipVars, memory, auxVars>>

CrashNext ==
    \/ \E name \in Names : StartAdd(name)
    \/ \E id \in Ids, name \in Names : StartRename(id, name)
    \/ \E id \in Ids : StartRemove(id)
    \/ \E id \in Ids, secret \in Secrets : StartUpdate(id, secret)
    \/ FileStep
    \/ Return
    \/ Stop

SpecCrash == StoreInit /\ [][CrashNext]_vars

\* ------------------------------------------ a damaged directory config
\* .rpm_config of a provisioned directory is left as bytes that are no TOML
\* record: DirectoryConfig::save writes it in place with std::fs::write, and
\* the file is open to every program of the user.
ConfigDamaged(dir) ==
    /\ fs[dir].cfg.kind = "toml"
    /\ fs' = [fs EXCEPT ![dir].cfg = [kind |-> "garbled"]]
    /\ UNCHANGED <<nextId, last, live, sessionVars>>

ConfigNext ==
    \/ Next
    \/ \E dir \in Dirs : ConfigDamaged(dir)

SpecConfig == StoreInit /\ [][ConfigNext]_vars

\* ------------------------------------------ unlocking a provisioned vault
\* rpm is started on the default directory, which an earlier session has
\* provisioned with a master password; meanwhile the stored hash or the
\* whole .rpm_config may be damaged.
UnlockInit ==
    /\ \E password \in Strings(PwChars), salt \in Salts :
         fs = DirectoryConfig_save([dir \in Dirs |-> EmptyDir], StoreDir,
                  [master_password_hash |-> Some(hash_password(password).val),
                   encryption_key_salt |-> Some(SaltEncode(salt))])
    /\ nextId = 1
    /\ last = NoCall
    /\ live = <<>>
    /\ config = DefaultConfig
    /\ state = InitState(DefaultConfig, fs)
    /\ storage = passwords_directory_path(DefaultConfig)
    /\ clipboard = NoText
    /\ tasks = [t \in Copies |-> "unborn"]
    /\ clipboard_cleanup_handle = None
    /\ copy_pc = Idle(0)
    /\ writers = [w \in Writers |-> NotWriting]
    /\ memory = CleanMemory
    /\ view = NoView
    /\ help_from = "none"
    /\ shutdown = Serving

UnlockNext ==
    \/ MasterPasswordEnter \/ MasterPasswordChar \/ MasterPasswordBackspace
    \/ MasterPasswordEsc \/ MasterPasswordUp \/ MasterPasswordDown
    \/ MainQuit
    \/ Exit
    \/ Launch
    \/ DamageHash
    \/ ConfigDamaged(StoreDir)

SpecUnlock == UnlockInit /\ [][UnlockNext]_vars

\* ------------------------------------ mutations under a key that is not it
\* add, rename, remove and update are called under any key on a vault whose
\* index was sealed under one of the keys and may have been damaged since.
\* remove(id, key) under any key
TryRemove(id, key) ==
    /\ UNCHANGED sessionVars
    /\ \E n \in Nonces :
         LET r == delete_entry(D, id, key, n)
         IN /\ fs' = [fs EXCEPT ![StoreDir] = r.d]
            /\ last' = Tried("remove", key, r.res)
            /\ UNCHANGED <<nextId, live>>

GuardNext ==
    \/ \E name \in Names, key \in AllKeys : TryAdd(name, key)
    \/ \E id \in Ids, name \in Names, key \in AllKeys : TryRename(id, name, key)
    \/ \E id \in Ids, key \in AllKeys : TryRemove(id, key)
    \/ \E id \in Ids, secret \in Secrets : TryUpdate(id, secret, K1)
    \/ \E how \in {"ciphertext", "nonce", "truncate"} : CorruptIndex(how)

SpecGuard == StoreInit /\ [][GuardNext]_vars

\* ---------------------------------------------- the list of the main screen
\* The letters of a name, lowered, as the matcher compares them.
Letters(name) ==
    IF name = "Gmail" THEN <<"g", "m", "a", "i", "l">>
    ELSE IF name = "Bank" THEN <<"b", "a", "n", "k">>
    ELSE <<>>

\* SkimMatcherV2::fuzzy_match(item, query).is_some(): the characters of the
\* query occur in the item in their order.
RECURSIVE fuzzy_match(_, _)
fuzzy_match(letters, query) ==
    IF query = <<>> THEN TRUE
    ELSE IF letters = <<>> THEN FALSE
    ELSE IF Head(letters) = Head(query) THEN fuzzy_match(Tail(letters), Tail(query))
    ELSE fuzzy_match(Tail(letters), query)

\* the items of a list that pass a test, in their order
RECURSIVE Matching(_, _)
Matching(items, query) ==
    IF items = <<>> THEN <<>>
    ELSE IF fuzzy_match(Letters(Head(items)), query)
    THEN <<Head(items)>> \o Matching(Tail(items), query)
    ELSE Matching(Tail(items), query)

\* filter_items: every item for an empty query; otherwise the matching items
\* sorted by the matcher's score. The score is the library's: any order of
\* the matching items is a possible result.
filter_items(all_items, search_query) ==
    IF search_query = <<>> THEN {all_items}
    ELSE LET found == Matching(all_items, search_query)
         IN {[i \in 1..Len(found) |-> found[f[i]]] :
                f \in {g \in [1..Len(found) -> 1..Len(found)] :
                          \A i, j \in 1..Len(found) : g[i] = g[j] => i = j}}

\* usize::saturating_sub(1)
SaturatingPred(n) == IF n > 0 THEN n - 1 ELSE 0

\* What the search keys do after filter_items: selected_index is clamped
\* into the list and the widget selects it, or nothing for an empty list.
Refiltered(v, query, filtered) ==
    LET clamped == IF v.selected_index >= Len(filtered)
                   THEN SaturatingPred(Len(filtered)) ELSE v.selected_index
    IN [v EXCEPT !.search_query = query,
                 !.filtered_items = filtered,
                 !.selected_index = clamped,
                 !.list_state = IF filtered = <<>> THEN None ELSE Some(clamped)]

\* Screen::Main, KeyCode::Up
MainUp ==
    /\ OnScreen("Main")
    /\ view.filtered_items # <<>> /\ view.selected_index > 0
    /\ view' = [view EXCEPT !.selected_index = @ - 1,
                            !.list_state = Some(view.selected_index - 1)]
    /\ UNCHANGED <<state, config, storage, clipVars, writers, memory, help_from,
                   shutdown, storeVars>>

\* Screen::Main, KeyCode::Down
MainDown ==
    /\ OnScreen("Main")
    /\ view.filtered_items # <<>>
    /\ view.selected_index < SaturatingPred(Len(view.filtered_items))
    /\ view' = [view EXCEPT !.selected_index = @ + 1,
                            !.list_state = Some(view.selected_index + 1)]
    /\ UNCHANGED <<state, config, storage, clipVars, writers, memory, help_from,
                   shutdown, storeVars>>

\* Screen::Main, KeyCode::Esc: the search is reset
MainEsc ==
    /\ OnScreen("Main")
    /\ view.search_query # <<>>
    /\ view' = [view EXCEPT !.search_query = <<>>,
                            !.filtered_items = state.all_items,
                            !.selected_index = 0,
                            !.list_state = IF state.all_items = <<>>
                                           THEN None ELSE Some(0)]
    /\ UNCHANGED <<state, config, storage, clipVars, writers, memory, help_from,
                   shutdown, storeVars>>

\* Screen::Main, KeyCode::Backspace
MainBackspace ==
    /\ OnScreen("Main")
    /\ view.search_query # <<>>
    /\ \E filtered \in filter_items(state.all_items, Pop(view.search_query)) :
         view' = Refiltered(view, Pop(view.search_query), filtered)
    /\ UNCHANGED <<state, config, storage, clipVars, writers, memory, help_from,
                   shutdown, storeVars>>

\* Screen::Main, KeyCode::Char(c). The model types at most MaxInput letters.
SearchChars == {"a", "g"}
MainChar(c) ==
    /\ OnScreen("Main")
    /\ Len(view.search_query) < MaxInput
    /\ \E filtered \in filter_items(state.all_items, Append(view.search_query, c)) :
         view' = Refiltered(view, Append(view.search_query, c), filtered)
    /\ UNCHANGED <<state, config, storage, clipVars, writers, memory, help_from,
                   shutdown, storeVars>>

\* Screen::Main, Ctrl+N
MainNew ==
    /\ OnScreen("Main")
    /\ state' = [state EXCEPT !.current_screen = "PasswordEntry"]
    /\ view' = [view EXCEPT !.filename = None]
    /\ UNCHANGED <<config, storage, clipVars, writers, memory, help_from,
                   shutdown, storeVars>>

\* Screen::Main, Ctrl+E: the form opens on the file name found for the
\* selected row, whether or not its record can be read.
MainEdit ==
    /\ OnScreen("Main")
    /\ LET filename == SelectedFilename(view.name_to_filename, view.filtered_items,
                                        view.selected_index)
       IN /\ filename.some /\ state.encryption_key.some
          /\ view' = [view EXCEPT !.filename = filename]
    /\ state' = [state EXCEPT !.current_screen = "PasswordEntry"]
    /\ UNCHANGED <<config, storage, clipVars, writers, memory, help_from,
                   shutdown, storeVars>>

\* Screen::PasswordEntry, KeyCode::Esc
PasswordEntryEsc ==
    /\ OnScreen("PasswordEntry")
    /\ state' = [state EXCEPT !.current_screen = "Main"]
    /\ UNCHANGED <<view, config, storage, clipVars, writers, memory, help_from,
                   shutdown, storeVars>>

\* Screen::PasswordEntry, KeyCode::Enter with the name and the secret typed.
\* Edit mode ignores what the two storage calls return; create mode returns
\* the error of add_entry from run_tui. Then the list is loaded again (an
\* error leaves the old one), filtered, Main is shown and the widget selects
\* row 0 of a list that is not empty.
PasswordEntryEnter(name, secret, w1, w2) ==
    /\ OnScreen("PasswordEntry")
    /\ UNCHANGED <<config, storage, clipVars, writers, help_from, shutdown, last, live>>
    /\ IF ~state.encryption_key.some
       THEN /\ state' = [state EXCEPT !.current_screen = "Main"]
            /\ view' = [view EXCEPT !.list_state =
                            IF view.filtered_items # <<>> THEN Some(0) ELSE @]
            /\ UNCHANGED <<fs, nextId, memory>>
       ELSE \E n \in Nonces :
         LET key == state.encryption_key.v
             r == IF view.filename.some
                  THEN edit_entry(fs[storage], view.filename.v, name, secret, key,
                                  n, w1, w2)
                  ELSE create_entry(fs[storage], name, secret, key, nextId, n, w1, w2)
             names == list_decrypted_names(r.d, key)
             all_items == IF names.ok THEN ItemsOf(names) ELSE state.all_items
         IN /\ view.filename.some \/ nextId <= MaxIds
            /\ fs' = [fs EXCEPT ![storage] = r.d]
            /\ nextId' = IF ~view.filename.some /\ r.res.ok THEN nextId + 1 ELSE nextId
            /\ IF ~r.res.ok
               THEN \* `?` returns from run_tui: the state is dropped as it is
                    /\ state' = [state EXCEPT !.should_quit = TRUE]
                    /\ memory' = [memory EXCEPT
                           !.freed = Max(memory.master_password_input,
                                         memory.master_password_confirm),
                           !.returned = "err"]
                    /\ UNCHANGED view
               ELSE /\ state' = [state EXCEPT !.all_items = all_items,
                                              !.current_screen = "Main"]
                    /\ \E filtered \in IF names.ok
                                       THEN filter_items(all_items, view.search_query)
                                       ELSE {view.filtered_items} :
                         view' = [view EXCEPT
                             !.name_to_filename = IF names.ok THEN names.val ELSE @,
                             !.filtered_items = filtered,
                             !.list_state = IF filtered # <<>> THEN Some(0) ELSE @]
                    /\ UNCHANGED memory

\* A session on a provisioned directory: it is unlocked, entries are
\* created and edited, the list is moved in and searched, and the directory
\* is changed in the settings and unlocked.
MainNext ==
    \/ MasterPasswordChar \/ MasterPasswordEnter
    \/ MainUp \/ MainDown \/ MainEsc \/ MainBackspace
    \/ \E c \in SearchChars : MainChar(c)
    \/ MainNew \/ MainEdit \/ PasswordEntryEsc
    \/ \E name \in Names : PasswordEntryEnter(name, "s1", "done", "done")
    \/ MainSettings \/ SettingsChar \/ SettingsBackspace \/ SettingsEsc

SpecMain == UnlockInit /\ [][MainNext]_vars

\* ------------------------------------- unlocking a vault with a damaged index
\* A session on a provisioned directory creates entries, is locked through
\* the settings and unlocked again, and is started again after it returned;
\* the def file may be damaged outside the program while the session is
\* locked.
OpenNext ==
    \/ MasterPasswordChar \/ MasterPasswordEnter
    \/ MainNew \/ PasswordEntryEsc
    \/ \E name \in Names : PasswordEntryEnter(name, "s1", "done", "done")
    \/ MainSettings \/ SettingsEsc
    \/ \E how \in {"ciphertext", "nonce", "truncate"} :
          OnScreen("MasterPassword") /\ CorruptIndex(how)
    \/ Launch

SpecOpen == UnlockInit /\ [][OpenNext]_vars

\* ------------------------------------------------------- the shutdown protocol
\* main spawned the server task with a clone of the watch receiver and the
\* TUI task with a clone of the sender. The receiver has seen the value the
\* channel was created with; changed() returns once the channel's version
\* differs from the one the receiver saw, whenever the send happened.
\* A server that takes the channel's version as seen when it begins to wait
\* (a receiver subscribed at that moment): an earlier send is missed.
ServerBind_resubscribe(bound) ==
    /\ shutdown.server = "starting"
    /\ shutdown' = [shutdown EXCEPT !.server = IF bound THEN "serving" ELSE "failed",
                                    !.seen = shutdown.version]
    /\ UNCHANGED <<state, config, storage, clipVars, writers, memory, view,
                   help_from, storeVars>>

\* start_server: TcpListener::bind(..).await?
ServerBind(bound) ==
    /\ shutdown.server = "starting"
    /\ shutdown' = [shutdown EXCEPT !.server = IF bound THEN "serving" ELSE "failed"]
    /\ UNCHANGED <<state, config, storage, clipVars, writers, memory, view,
                   help_from, storeVars>>

\* start_server: shutdown_rx.changed() returns and the graceful shutdown of
\* axum::serve completes; start_server returns Ok.
ServerShutdown ==
    /\ shutdown.server = "serving"
    /\ shutdown.version # shutdown.seen
    /\ shutdown' = [shutdown EXCEPT !.server = "stopped", !.seen = shutdown.version]
    /\ UNCHANGED <<state, config, storage, clipVars, writers, memory, view,
                   help_from, storeVars>>

\* main: tui_handle.await returns after run_tui returned (Ok or Err), then
\* shutdown_tx.send(())
MainJoinTui ==
    /\ shutdown.main = "await_tui"
    /\ memory.returned # "no"
    /\ shutdown' = [shutdown EXCEPT !.version = @ + 1, !.main = "await_server"]
    /\ UNCHANGED <<state, config, storage, clipVars, writers, memory, view,
                   help_from, storeVars>>

\* main: server_handle.await returns after the server task ended; main
\* returns Ok.
MainJoinServer ==
    /\ shutdown.main = "await_server"
    /\ shutdown.server \in {"stopped", "failed"}
    /\ shutdown' = [shutdown EXCEPT !.main = "returned"]
    /\ UNCHANGED <<state, config, storage, clipVars, writers, memory, view,
                   help_from, storeVars>>

\* One run of the program on a provisioned directory: the session is
\* unlocked or not, entries are created with writes that may fail, the
\* session quits with Esc or Ctrl+Q or returns an error; beside it the
\* server task and main take their steps.
ShutdownNext ==
    \/ MasterPasswordChar \/ MasterPasswordEnter \/ MasterPasswordEsc
    \/ MainNew \/ PasswordEntryEsc
    \/ \E name \in Names, w1 \in IoOutcomes : PasswordEntryEnter(name, "s1", w1, "done")
    \/ MainQuit
    \/ Exit
    \/ \E bound \in BOOLEAN : ServerBind(bound)
    \/ ServerShutdown
    \/ MainJoinTui
    \/ MainJoinServer

\* The runtime schedules the tasks it holds: a task that can take its next
\* step takes it. run_tui, once should_quit is set, leaves its loop without
\* waiting for a key.
SpecShutdown ==
    /\ UnlockInit /\ [][ShutdownNext]_vars
    /\ WF_vars(Exit)
    /\ WF_vars(\E bound \in BOOLEAN : ServerBind(bound))
    /\ WF_vars(ServerShutdown)
    /\ WF_vars(MainJoinTui)
    /\ WF_vars(MainJoinServer)

\* ------------------------------------------------ claims on the storage API
IndexOps == {"add", "rename", "remove"}

\* C4: lifecycle under one key. After a successful add(name) that returned
\* id, find_by_name(name) returns an id, and it is that id when no earlier
\* entry bore the name. After a successful remove(id), list does not
\* contain id, the record file of id does not exist, and find_by_name never
\* returns id and returns none for every name no remaining entry bears.
C4_Lifecycle ==
    /\ last.op = "add" =>
            LET f == find_filename_by_name(D, last.arg, last.key)
            IN /\ f.ok /\ f.val.some
               /\ (~last.had.entry => f.val.v = last.id)
    /\ last.op = "remove" =>
            LET l == list_decrypted_names(D, last.key)
            IN /\ l.ok /\ ~HasId(l.val, last.id)
               /\ ~HasFile(D, last.id)
               /\ \A name \in Names :
                      LET f == find_filename_by_name(D, name, last.key)
                      IN /\ f.ok
                         /\ (f.val.some => f.val.v # last.id)
                         /\ (~HasName(live, name) => ~f.val.some)

\* C4 witness: an entry that was added and had a record file has just been
\* removed, and its name now finds nothing.
C4_Witness ==
    /\ last.op = "remove" /\ last.had.entry /\ last.had.file
    /\ live = <<>>
    /\ find_filename_by_name(D, "Gmail", last.key) = Ok(None)

\* C5: the index is the sole source of truth. After any sequence of
\* successful add, rename and remove under one key, list(key) is exactly
\* the history: one (id, name) pair per id added and not removed, with the
\* name given last, in insertion order.
C5_ListIsHistory ==
    /\ last.op \in IndexOps => list_decrypted_names(D, last.key).ok
    /\ \A key \in ValidKeys :
           LET l == list_decrypted_names(D, key)
           IN l.ok => l.val = live

\* C5 witness: two entries are listed, the first one under a name it got
\* by rename.
C5_Witness ==
    /\ last.op = "rename" /\ last.had.entry /\ last.id = 1
    /\ Len(live) = 2 /\ live[1] = <<1, last.arg>>
    /\ list_decrypted_names(D, last.key) = Ok(live)

\* C9: secret record round trip. After create(S, K) or update(id, S, K)
\* succeeded, read(id, K) returns S; and an update step leaves the index
\* and every other record file as they were.
C9_ReadBack ==
    last.op \in {"create", "update"} =>
        load_password_file(D, last.id, last.key) = Ok(last.arg)
C9_UpdateFrame ==
    last'.op = "update" =>
        /\ fs'[StoreDir].def = fs[StoreDir].def
        /\ \A j \in Ids \ {last'.id} : fs'[StoreDir].pwd[j] = fs[StoreDir].pwd[j]
\* C9, both parts: the read-back in every state and the frame of every step.
C9_RecordRoundTrip == []C9_ReadBack /\ [][C9_UpdateFrame]_vars

\* C9 witness: an existing record was overwritten with another secret while
\* an index entry and another record file exist.
C9_Witness ==
    /\ last.op = "update" /\ last.had.file /\ last.arg = "s2"
    /\ live # <<>>
    /\ \E j \in Ids \ {last.id} : HasFile(D, j)
    /\ load_password_file(D, last.id, last.key) = Ok("s2")

\* C6: index round trip. For an entry list E and key K, after save(E, K)
\* succeeded load(K) returns E, and when the names of E were encrypted under
\* K, list(K) returns the (id, name) pairs that were saved.
C6_IndexRoundTrip ==
    (last.op = "save" /\ last.res.ok) =>
        /\ load_def_file(D, last.key)
              = Ok(EntriesOf(last.arg.names, last.arg.ekey))
        /\ (last.arg.ekey = last.key =>
              list_decrypted_names(D, last.key) = Ok(PairsOf(last.arg.names)))

\* C6 witness: a two-entry list replaced an earlier def file and lists back.
C6_Witness ==
    /\ last.op = "save" /\ last.res.ok /\ last.had.entry
    /\ last.arg.names = <<"Gmail", "Bank">> /\ last.arg.ekey = last.key
    /\ list_decrypted_names(D, last.key) = Ok(<<<<1, "Gmail">>, <<2, "Bank">>>>)

\* C7: while the vault directory has no def file, load returns the empty
\* list without error under any key, list returns the empty list and
\* find_by_name returns none.
C7_MissingIndexIsEmpty ==
    /\ D.def.kind = "absent" =>
          \A key \in AllKeys :
              /\ load_def_file(D, key) = Ok(<<>>)
              /\ list_decrypted_names(D, key) = Ok(<<>>)
              /\ \A name \in Names : find_filename_by_name(D, name, key) = Ok(None)
    /\ (last.op = "load" /\ ~last.had.entry) => last.res = Ok(<<>>)
    /\ (last.op = "list" /\ ~last.had.entry) => last.res = Ok(<<>>)
    /\ (last.op = "find" /\ ~last.had.entry) => last.res = Ok(None)

\* C7 witness: find_by_name ran under a key of the wrong length with no def
\* file and returned none.
C7_Witness ==
    /\ last.op = "find" /\ last.key = KShort /\ D.def.kind = "absent"
    /\ last.res = Ok(None)

\* C8: decryption yields plaintext only for the key, nonce and ciphertext of
\* one encryption call. A read of a record file, a load of the def file or
\* a list of its names under another key, or after the ciphertext or the
\* nonce was altered, returns a Crypto error; otherwise it returns what was
\* encrypted.
C8_DecryptAuthentic ==
    /\ (last.op = "read" /\ D.pwd[last.id].kind = "json") =>
          LET f == D.pwd[last.id]
          IN IF /\ RecordIntact(f) /\ last.key.len = KeyLen
                /\ f.encrypted_password.bytes.k = last.key.mat
             THEN last.res = Ok(f.encrypted_password.bytes.pt)
             ELSE last.res = Err("Crypto")
    /\ (last.op = "load" /\ D.def.kind = "bin") =>
          IF IndexIntact(D) /\ last.key.len = KeyLen /\ D.def.tail.k = last.key.mat
          THEN last.res = Ok(D.def.tail.pt.entries)
          ELSE last.res = Err("Crypto")
    /\ (last.op = "list" /\ D.def.kind = "bin" /\ D.def.tail.pt.entries # <<>>) =>
          IF /\ IndexIntact(D) /\ last.key.len = KeyLen
             /\ D.def.tail.k = last.key.mat
             /\ \A i \in 1..Len(D.def.tail.pt.entries) :
                    D.def.tail.pt.entries[i].encrypted_name.bytes.k = last.key.mat
          THEN /\ last.res.ok
               /\ \A i \in 1..Len(D.def.tail.pt.entries) :
                      last.res.val[i][2] = D.def.tail.pt.entries[i].encrypted_name.bytes.pt
          ELSE last.res = Err("Crypto")

\* C10: read reports a missing record file, and nothing else, with the Io
\* kind: a record file that exists but cannot be parsed or decrypted gives
\* another kind.
C10_MissingIsIo ==
    last.op = "read" => (last.res.err = "Io" <=> ~HasFile(D, last.id))

\* ------------------------------------------------- claims on the session
\* C1: the session enters the unlocked state (a key is held and Main is
\* shown) from the master-password screen only when the password the key is
\* derived from has just been stored as the directory's hash by the create
\* form, on its confirmation field with both passwords equal, or has just
\* been verified against the stored hash by the unlock form.
C1_UnlockAfterHash ==
    [][(/\ state.current_screen = "MasterPassword"
        /\ state'.current_screen = "Main"
        /\ state'.encryption_key.some) =>
          LET dc == DirectoryConfig_load(fs', passwords_directory_path(config'))
          IN /\ dc.master_password_hash.some
             /\ verify_password(state'.encryption_key.v.mat.pw,
                                dc.master_password_hash.v) = Ok(TRUE)
             /\ state.is_creating_master_password =>
                   /\ state.master_password_field = 2
                   /\ state.master_password_input = state.master_password_confirm
    ]_vars

\* C2: in every persisted state of a directory's .rpm_config the hash and
\* the salt are both absent or both present.
C2_HashAndSaltTogether ==
    \A dir \in Dirs :
        LET dc == DirectoryConfig_load(fs, dir)
        IN dc.master_password_hash.some <=> dc.encryption_key_salt.some

\* C3: once a directory's .rpm_config holds a master-password hash, no step
\* of a session replaces it.
C3_ProvisionedOnce ==
    [][\A dir \in Dirs :
          LET dc == DirectoryConfig_load(fs, dir)
          IN dc.master_password_hash.some =>
                DirectoryConfig_load(fs', dir).master_password_hash
                    = dc.master_password_hash
    ]_vars

\* C11: no damage to on-disk data makes the core panic. A read of a record
\* file, or a load, list or find on a def file, whose stored nonce has
\* another length than 12 bytes, whose base64 is malformed or whose
\* ciphertext bytes were changed returns a Crypto or Serialization error.
C11_NoPanicOnDamage ==
    /\ (/\ last.op = "read"
        /\ D.pwd[last.id].kind = "json"
        /\ ~RecordIntact(D.pwd[last.id])) =>
            last.res \in {Err("Crypto"), Err("Serialization")}
    /\ (/\ last.op \in {"load", "list", "find"}
        /\ D.def.kind \in {"bin", "short"}
        /\ ~IndexIntact(D)) =>
            last.res \in {Err("Crypto"), Err("Serialization")}

\* C12: encrypt and decrypt reject every key whose length is not 32 bytes
\* with a Crypto error before any cipher work, and a storage operation
\* (index save, add, rename, record create, record update) called with such
\* a key returns that error and leaves every index and record file as it was.
C12_BadKeyRejected ==
    /\ \A key \in BadKeys, secret \in Secrets, n \in Nonces :
          /\ encrypt_password(secret, key, n) = Err("Crypto")
          /\ \A len \in {NonceLen, NonceLen - 1} :
                decrypt_password(Seal(secret, K1, NonceBytes(n)),
                                 [v |-> n, len |-> len], key) = Err("Crypto")
    /\ [][(last'.op \in {"save", "add", "rename", "create", "update"}
           /\ last'.key.len # KeyLen) =>
              (last'.res = Err("Crypto") /\ fs' = fs)]_vars

\* C12 witness: an update under a key of 16 bytes was refused while an index
\* and a record file exist.
C12_Witness ==
    /\ last.op = "update" /\ last.key = KShort /\ last.res = Err("Crypto")
    /\ D.def.kind = "bin"
    /\ \E id \in Ids : HasFile(D, id)

\* C13: rename(id, new_name, key) changes the name of the entry with that id
\* and nothing else. A rename step (one that is not the recorded call over
\* again with nothing changed) leaves the index as it was but for the name of
\* that id: same length, same ids in the same order, every other entry
\* identical; and it leaves every record file as it was. For an id no entry
\* has, rename succeeds and the listed pairs do not change.
C13_AbsentIdSucceeds ==
    \A key \in ValidKeys :
        LET before == list_decrypted_names(D, key)
        IN before.ok =>
              \A id \in {i \in Ids : ~HasId(before.val, i)},
                 name \in Names, n \in Nonces :
                  LET r == update_entry(D, id, name, key, n, n)
                  IN /\ r.res.ok
                     /\ list_decrypted_names(r.d, key) = before
                     /\ r.d.pwd = D.pwd
C13_RenameStep ==
    (/\ last'.op = "rename"
     /\ \/ fs' # fs \/ last.op # "rename" \/ last'.id # last.id
        \/ last'.arg # last.arg \/ last'.key # last.key) =>
        LET before == load_def_file(fs[StoreDir], last'.key)
            after == load_def_file(fs'[StoreDir], last'.key)
        IN /\ before.ok /\ after.ok
           /\ Len(after.val) = Len(before.val)
           /\ \A i \in 1..Len(before.val) :
                 IF before.val[i].encrypted_filename = last'.id
                 THEN /\ after.val[i].encrypted_filename = last'.id
                      /\ decrypt_filename(after.val[i].encrypted_name,
                                          after.val[i].nonce, last'.key) = Ok(last'.arg)
                 ELSE after.val[i] = before.val[i]
           /\ fs'[StoreDir].pwd = fs[StoreDir].pwd
\* C13, both parts: the absent id in every state, the frame of every step.
C13_RenameFrame == []C13_AbsentIdSucceeds /\ [][C13_RenameStep]_vars

\* C13 witness: the second of two entries, which has a record file, was
\* renamed to a name the first entry does not bear.
C13_Witness ==
    /\ last.op = "rename" /\ last.had.entry /\ last.had.file
    /\ Len(live) = 2 /\ live[2] = <<last.id, last.arg>>
    /\ live[1][2] # last.arg
    /\ list_decrypted_names(D, last.key) = Ok(live)

\* C14: remove is idempotent. In every reachable vault and for every id,
\* with a key the index opens under, remove(id, key) succeeds whether or
\* not the id has an index entry or a record file; a second remove of the
\* same id succeeds too and leaves the vault exactly as the first one left
\* it; the record files and the listed entries of all other ids are those
\* from before the call.
C14_RemoveTwice ==
    \A key \in ValidKeys :
        LET before == list_decrypted_names(D, key)
        IN before.ok =>
              \A id \in Ids, n \in Nonces :
                  LET once == delete_entry(D, id, key, n)
                      twice == delete_entry(once.d, id, key, n)
                  IN /\ once.res = Ok("unit")
                     /\ twice.res = Ok("unit")
                     /\ twice.d = once.d
                     /\ list_decrypted_names(once.d, key) =
                            Ok(LiveRemove(before.val, id))
                     /\ ~HasFile(once.d, id)
                     /\ \A other \in Ids \ {id} : once.d.pwd[other] = D.pwd[other]
\* C14 as the callers see it: a remove step for an id that has neither an
\* entry nor a record file changes no listed entry and no record file.
C14_RemoveAgainStep ==
    (last'.op = "remove" /\ ~last'.had.entry /\ ~last'.had.file) =>
        /\ last'.res = Ok("unit")
        /\ list_decrypted_names(fs'[StoreDir], last'.key) = Ok(live)
        /\ live' = live
        /\ fs'[StoreDir].pwd = fs[StoreDir].pwd
C14_RemoveIdempotent == []C14_RemoveTwice /\ [][C14_RemoveAgainStep]_vars

\* C14 witness: an id was removed again after its entry and its record file
\* were gone, while another id still has both.
C14_Witness ==
    /\ last.op = "remove" /\ ~last.had.entry /\ ~last.had.file
    /\ last.res = Ok("unit")
    /\ \E other \in Ids \ {last.id} : HasId(live, other) /\ HasFile(D, other)

\* C15: with duplicate names, find_by_name returns the id of the entry added
\* earliest among those that are still present and bear the name, and none
\* only when no entry bears it; a rename keeps every entry at its position.
\* live is the history of the entries in the order of their addition.
FirstWithName(l, name) ==
    LET hits == {i \in 1..Len(l) : l[i][2] = name}
    IN IF hits = {} THEN None
       ELSE Some(l[CHOOSE i \in hits : \A j \in hits : i <= j][1])
C15_FindFirst ==
    \A key \in ValidKeys :
        load_def_file(D, key).ok =>
            \A name \in Names :
                find_filename_by_name(D, name, key) = Ok(FirstWithName(live, name))
C15_RenameKeepsPlace ==
    last'.op = "rename" =>
        LET before == load_def_file(fs[StoreDir], last'.key)
            after == load_def_file(fs'[StoreDir], last'.key)
        IN /\ before.ok /\ after.ok
           /\ Len(after.val) = Len(before.val)
           /\ \A i \in 1..Len(before.val) :
                 after.val[i].encrypted_filename = before.val[i].encrypted_filename
C15_FindEarliest == []C15_FindFirst /\ [][C15_RenameKeepsPlace]_vars

\* C15 witness: the entry added first was renamed to the name the entry
\* added second bears, and find_by_name of that name gives the first one.
C15_Witness ==
    /\ last.op = "rename" /\ last.had.entry
    /\ Len(live) = 2 /\ live[1][1] = last.id /\ live[2][2] = last.arg
    /\ live[1][1] < live[2][1]
    /\ find_filename_by_name(D, last.arg, last.key) = Ok(Some(last.id))

\* C16: a record file whose id has no index entry does not exist for any
\* lookup. In every reachable vault, for a key the index opens under and an
\* id with a record file but no entry: list does not give the id, find_by_name
\* gives it for no name, and read(id, key) does not return the secret.
C16_OrphanNotSurfaced ==
    \A key \in ValidKeys, id \in Ids :
        LET listed == list_decrypted_names(D, key)
        IN (listed.ok /\ HasFile(D, id) /\ ~HasId(live, id)) =>
              /\ ~HasId(listed.val, id)
              /\ \A name \in Names :
                    find_filename_by_name(D, name, key) # Ok(Some(id))
              /\ ~load_password_file(D, id, key).ok

\* C17: no index holds two entries with the same id. In every reachable
\* vault the entries of the index, under any key that opens it, have pairwise
\* different ids, and an add step appends an id that the index it loaded did
\* not hold (ids are version-4 UUIDs, taken as never drawn twice).
C17_IdsDiffer ==
    \A key \in ValidKeys :
        LET ld == load_def_file(D, key)
        IN ld.ok =>
              \A i \in 1..Len(ld.val), j \in 1..Len(ld.val) :
                  ld.val[i].encrypted_filename = ld.val[j].encrypted_filename => i = j
C17_AddStep ==
    last'.op = "add" =>
        LET before == load_def_file(fs[StoreDir], last'.key)
            after == load_def_file(fs'[StoreDir], last'.key)
        IN /\ before.ok /\ after.ok
           /\ Len(after.val) = Len(before.val) + 1
           /\ after.val[Len(after.val)].encrypted_filename = last'.res.val
           /\ \A i \in 1..Len(before.val) :
                 before.val[i].encrypted_filename # last'.res.val
C18_Paired ==
    /\ Listing.ok
    /\ \A id \in Ids : HasId(Listing.val, id) <=> HasFile(D, id)

\* C19: a new copy cancels the pending clear before it schedules its own. At
\* most one clear task is pending (asleep, or past its sleep and about to
\* clear) at any time, and the clear task of a copy never empties a clipboard
\* whose text was put there by a later copy.
Pending == {t \in Copies : tasks[t] \in {"sleeping", "running"}}
C19_OnePending == Cardinality(Pending) <= 1
C19_ClearsOwnCopy ==
    \A t \in Copies :
        (tasks[t] = "running" /\ tasks'[t] = "done" /\ clipboard.text # "") =>
            clipboard.copy <= t
C19_ClearNeverRaces == []C19_OnePending /\ [][C19_ClearsOwnCopy]_vars

\* C20: verify_password(p, hash_password(q)) is true exactly when p = q. A
\* password that differs is answered by the value false, not by an error,
\* and a hash string that is no well-formed hash gives a Crypto error, no
\* panic.
C20_VerifyMatches ==
    /\ \A p \in Passwords, q \in Passwords :
          /\ hash_password(q).ok
          /\ verify_password(p, hash_password(q).val) = Ok(p = q)
    /\ last.op = "verify" =>
          last.res = IF last.hash.phc THEN Ok(last.hash.pw = last.password)
                     ELSE Err("Crypto")

\* C20 witness: a password other than the hashed one was verified against a
\* well-formed stored hash and answered by false.
C20_Witness ==
    /\ last.op = "verify" /\ last.hash.phc
    /\ last.hash.pw # last.password
    /\ last.res = Ok(FALSE)
    /\ StoredHash = Some(last.hash)

\* C21: derive_key with a salt supplied is a function of (password, salt):
\* it returns a key of 32 bytes, equal passwords with different salts give
\* different keys, and equal arguments give equal keys. In a session, the
\* salt a directory's .rpm_config holds is never replaced, and the key an
\* unlock holds is derive_key of the password typed and that salt, so two
\* unlocks of a directory with one password hold the same key.
DeriveSalts == {1, 2}
C21_KeyOfPasswordAndSalt ==
    \A p \in Strings(PwChars), q \in Strings(PwChars),
       s \in DeriveSalts, t \in DeriveSalts :
        /\ derive_key(p, s).ok
        /\ derive_key(p, s).val.len = KeyLen
        /\ (derive_key(p, s) = derive_key(q, t)) <=> (p = q /\ s = t)
C21_SaltKept ==
    \A dir \in Dirs :
        LET salt == DirectoryConfig_load(fs, dir).encryption_key_salt
        IN salt.some => DirectoryConfig_load(fs', dir).encryption_key_salt = salt
C21_UnlockStep ==
    (/\ state.current_screen = "MasterPassword"
     /\ ~state.is_creating_master_password
     /\ state'.current_screen = "Main") =>
        LET salt == DirectoryConfig_load(fs, storage).encryption_key_salt
        IN /\ salt.some
           /\ SaltDecode(salt.v).ok
           /\ state'.encryption_key =
                 Some(derive_key(state.master_password_input,
                                 SaltDecode(salt.v).val).val)
C22_FreshGate ==
    [][(/\ OnScreen("MasterPassword")
        /\ state.is_creating_master_password
        /\ state.master_password_field = 2
        /\ state.master_password_input = state.master_password_confirm
        /\ state' # state) =>
          LET dir == passwords_directory_path(
                         [config EXCEPT !.passwords_directory =
                              DirectoryOfInput(state.passwords_dir_input)])
              dc == DirectoryConfig_load(fs, dir)
          IN has_master_password(dc) =>
                /\ DirectoryConfig_load(fs', dir).master_password_hash
                       = dc.master_password_hash
                /\ state'.current_screen # "Main"
    ]_vars

\* C23: the index is written as one blob and the last write wins. A save
\* step of a writer leaves the index holding exactly the list that writer
\* loaded and changed, so an entry another writer saved in between is gone;
\* an add that runs from load to save with no other writer in between keeps
\* every entry the index held and appends its own.
C23_SingleWriterKeeps ==
    LET cur == list_decrypted_names(D, SessionKey)
    IN /\ cur.ok
       /\ \A name \in Names, n \in Nonces :
             LET r == add_entry(D, name, SessionKey, nextId, n, n)
             IN /\ r.res = Ok(nextId)
                /\ list_decrypted_names(r.d, SessionKey)
                      = Ok(Append(cur.val, <<nextId, name>>))
C23_SaveStep ==
    \A w \in Writers :
        (writers[w].pc # "idle" /\ writers'[w].pc = "idle") =>
            load_def_file(fs'[StoreDir], SessionKey) = Ok(writers[w].entries)
C23_LastWriteWins == []C23_SingleWriterKeeps /\ [][C23_SaveStep]_vars

\* C23 witness, the lost update: two adds succeeded, no entry was removed,
\* and the index holds only the entry of the writer that saved last.
C23_Witness ==
    /\ last.op = "add" /\ Len(live) = 2
    /\ live[2] = <<last.id, last.arg>>
    /\ list_decrypted_names(D, SessionKey) = Ok(<<live[2]>>)
    /\ \A w \in Writers : writers[w].pc = "idle"

\* C24: writes of the index file and of record files are atomic with respect
\* to a stop of the process. While an operation is in progress every file
\* holds the complete content it had when the operation started or the
\* complete content the operation leaves, and a process that is not in an
\* operation finds no partial file.
C24_CrashAtomic ==
    LET w == writers[Proc]
    IN /\ w.pc = "running" =>
             /\ D.def \in {w.from.def, w.to.def}
             /\ \A id \in Ids : D.pwd[id] \in {w.from.pwd[id], w.to.pwd[id]}
       /\ w.pc = "idle" =>
             /\ D.def.kind # "short"
             /\ \A id \in Ids : D.pwd[id].kind # "badjson"

\* C28: remove saves the index without the entry first and deletes the record
\* file only afterwards. At every point of a remove in progress, and so
\* wherever it stops, a record file this remove has deleted is not referenced
\* by the index: the index on disk loads and holds no entry with the id. What
\* a stop between the two steps leaves is the record file without an entry.
IndexRefers(d, id) ==
    LET ld == load_def_file(d, SessionKey)
    IN ~ld.ok \/ \E i \in 1..Len(ld.val) : ld.val[i].encrypted_filename = id
C28_IndexBeforeFile ==
    LET w == writers[Proc]
    IN (w.pc = "running" /\ w.op = "remove"
          /\ HasFile(w.from, w.id) /\ ~HasFile(D, w.id))
       => ~IndexRefers(D, w.id)
\* a remove of a listed entry with a record is between its two steps: the
\* index is saved without the entry and the record file is still there
C28_Witness ==
    LET w == writers[Proc]
    IN /\ w.pc = "running" /\ w.op = "remove"
       /\ IndexRefers(w.from, w.id) /\ load_def_file(w.from, SessionKey).ok
       /\ ~IndexRefers(D, w.id)
       /\ HasFile(D, w.id)
       /\ Len(w.steps) = 1

\* C25: the password buffers of the session hold no typed byte once the
\* lifetime of their content has ended, on each way out: when run_tui has
\* returned, after a normal quit or after an early return on an error, no
\* buffer and no freed allocation holds password bytes; and the step that
\* rejects mismatched passwords on the create form leaves both buffers
\* overwritten.
C25_MismatchStep ==
    /\ OnScreen("MasterPassword")
    /\ state.is_creating_master_password /\ state.master_password_field = 2
    /\ state.master_password_input # state.master_password_confirm
    /\ state'.master_password_input = <<>> /\ state'.master_password_confirm = <<>>
    /\ state'.master_password_field = 1
    /\ state'.current_screen = "MasterPassword"
C25_Zeroized ==
    /\ [](memory.returned # "no" =>
             /\ memory.master_password_input = 0
             /\ memory.master_password_confirm = 0
             /\ memory.freed = 0)
    /\ [][C25_MismatchStep =>
             /\ memory'.master_password_input = 0
             /\ memory'.master_password_confirm = 0]_vars

\* C26: DirectoryConfig::load returns the empty record, without error, for a
\* directory without .rpm_config; save followed by load returns the saved
\* hash and salt; and a session that starts reports its directory as
\* unprovisioned (create mode) only when no hash is stored for it, never
\* when .rpm_config exists and cannot be read or parsed.
DirectoryConfigs ==
    [master_password_hash : {None} \cup {Some(hash_password(pw).val) : pw \in Strings(PwChars)},
     encryption_key_salt : {None} \cup {Some(SaltEncode(salt)) : salt \in Salts}]
C26_StartStep ==
    /\ state.should_quit
    /\ state' = InitState(config, fs)
C26_Unprovisioned ==
    /\ [](\A dir \in Dirs :
            /\ fs[dir].cfg.kind = "absent" =>
                   DirectoryConfig_load_result(fs, dir) = Ok(EmptyDirectoryConfig)
            /\ \A dc \in DirectoryConfigs :
                   DirectoryConfig_load_result(DirectoryConfig_save(fs, dir, dc), dir)
                       = Ok(dc))
    /\ [][(C26_StartStep /\ state'.is_creating_master_password) =>
             LET loaded == DirectoryConfig_load_result(fs, passwords_directory_path(config))
             IN loaded.ok /\ ~loaded.val.master_password_hash.some]_vars

\* C27: the key-derivation salt is written in the unpadded base64 form only
\* and is read in the unpadded and in the padded form. Decoding what was
\* written for a salt gives that salt; every salt a directory's .rpm_config
\* holds is in the unpadded form, decodes, and is never replaced; and each
\* step that opens the session, by the create flow or by unlock, holds the
\* key of the password typed and the decoded stored salt. So the key of
\* provisioning is the key of every later unlock with that password.
C27_Codec ==
    \A salt \in DeriveSalts :
        LET written == SaltEncode(salt)
        IN /\ ~written.padded
           /\ SaltDecode(written) = Ok(salt)
           /\ SaltDecode([written EXCEPT !.padded = TRUE]) = Ok(salt)
C27_StoredCanonical ==
    \A dir \in Dirs :
        LET salt == DirectoryConfig_load(fs, dir).encryption_key_salt
        IN salt.some =>
              /\ ~salt.v.padded
              /\ \E bytes \in Salts : /\ salt.v = SaltEncode(bytes)
                                      /\ SaltDecode(salt.v) = Ok(bytes)
C27_SaltStays ==
    \A dir \in Dirs :
        DirectoryConfig_load(fs, dir).encryption_key_salt.some =>
            DirectoryConfig_load(fs', dir).encryption_key_salt
                = DirectoryConfig_load(fs, dir).encryption_key_salt
C27_OpenStep ==
    (OnScreen("MasterPassword") /\ state'.current_screen = "Main") =>
        LET salt == DirectoryConfig_load(fs', storage').encryption_key_salt
        IN /\ salt.some
           /\ state'.encryption_key =
                 Some(derive_key(state.master_password_input,
                                 SaltDecode(salt.v).val).val)
C29_Readable(d, key) ==
    /\ IndexIntact(d) /\ key.len = KeyLen /\ d.def.tail.k = key.mat
C29_LoadOf(d, key) ==
    LET res == load_def_file(d, key)
    IN CASE d.def.kind = "short" -> res = Err("Crypto")
         [] d.def.kind = "bin" /\ ~C29_Readable(d, key) -> res = Err("Crypto")
         [] d.def.kind = "bin" /\ C29_Readable(d, key) ->
                LET pt == d.def.tail.pt
                IN CASE pt.json = "DefFile" -> res = Ok(pt.entries)
                     [] pt.json = "notutf8" -> res = Err("Crypto")
                     [] OTHER -> res = Err("Serialization")
         [] OTHER -> TRUE
C29_AllOrNothing ==
    /\ \A key \in AllKeys : C29_LoadOf(D, key)
    /\ (last.op = "load" /\ last.had.entry /\ last.res.ok) =>
           /\ C29_Readable(D, last.key) /\ D.def.tail.pt.json = "DefFile"
           /\ last.res.val = D.def.tail.pt.entries

\* C29 witness: load ran on a def file whose plaintext breaks off after its
\* first entry, under the sealing key, and returned a Serialization error.
C29_Witness ==
    /\ last.op = "load" /\ D.def.kind = "bin"
    /\ C29_Readable(D, last.key)
    /\ D.def.tail.pt.json = "malformed" /\ D.def.tail.pt.entries # <<>>
    /\ last.res = Err("Serialization")

\* C30: in unlock mode a submitted password that does not verify against the
\* stored hash, a stored hash that does not parse, or no stored hash at all
\* leaves the session locked. From a state where the password typed is not
\* accepted no step of the session opens the main screen, sets a key or
\* writes a file, and the step that empties the password input changes
\* nothing else of the session.
C30_NotAccepted ==
    LET stored_hash == DirectoryConfig_load(fs, passwords_directory_path(config))
                           .master_password_hash
    IN /\ OnScreen("MasterPassword")
       /\ ~state.is_creating_master_password
       \* the input is not the password the stored hash was made of
       /\ ~(/\ stored_hash.some /\ stored_hash.v.phc
            /\ stored_hash.v.pw = state.master_password_input)
C30_StaysLocked ==
    [][(C30_NotAccepted /\ state' # state) =>
          /\ state'.current_screen # "Main"
          /\ state'.encryption_key = state.encryption_key
          /\ ~state'.encryption_key.some
          /\ fs' = fs /\ config' = config /\ storage' = storage
          /\ (state.master_password_input # <<>> /\ state'.master_password_input = <<>>)
                => state' = [state EXCEPT !.master_password_input = <<>>]
    ]_vars

\* C30 witness: a session in unlock mode holds an empty password input and
\* no key on the master-password screen, while the stored hash is one that
\* does not parse and the buffer still holds bytes of a rejected password.
C30_Witness ==
    LET stored_hash == DirectoryConfig_load(fs, passwords_directory_path(config))
                           .master_password_hash
    IN /\ OnScreen("MasterPassword") /\ ~state.is_creating_master_password
       /\ stored_hash.some /\ ~stored_hash.v.phc
       /\ state.master_password_input = <<>>
       /\ memory.master_password_input > 0
       /\ ~state.encryption_key.some

\* C31: a mutation under a key that cannot decrypt the existing index changes
\* nothing. While the def file is present and is not an intact file sealed
\* under the key (another key, a key of the wrong length, or a damaged file),
\* add, rename and remove under that key return an error and leave the def
\* file and every record file as they are; and a call that returned an
\* error has left the directory unchanged.
C31_CannotDecrypt(d, key) ==
    /\ d.def.kind # "absent"
    /\ ~(IndexIntact(d) /\ key.len = KeyLen /\ d.def.tail.k = key.mat)
C31_Refused(r, d) == ~r.res.ok /\ r.d = d
C31_WrongKeyKeepsFiles ==
    \A key \in AllKeys :
        C31_CannotDecrypt(D, key) =>
            /\ \A name \in Names :
                 C31_Refused(add_entry(D, name, key, nextId, 1, 1), D)
            /\ \A id \in Ids, name \in Names :
                 C31_Refused(update_entry(D, id, name, key, 1, 1), D)
            /\ \A id \in Ids :
                 C31_Refused(delete_entry(D, id, key, 1), D)
C31_FailedStep ==
    (last'.op \in {"add", "rename", "remove"} /\ ~last'.res.ok) => fs' = fs
C31_WrongKeyNoWrite == []C31_WrongKeyKeepsFiles /\ [][C31_FailedStep]_vars

\* C31 witness: add was called under the second valid key on an index that
\* holds an entry sealed under the first; it returned a Crypto error and the
\* index is intact, still sealed under the first key, beside a record file.
C31_Witness ==
    /\ last.op = "add" /\ last.key = K2 /\ last.res = Err("Crypto")
    /\ IndexIntact(D) /\ D.def.tail.k = K1.mat
    /\ D.def.tail.pt.entries # <<>>
    /\ \E id \in Ids : HasFile(D, id)

\* C32: a vault screen is shown only while a key is held, and with the names
\* of the configured directory. Whenever the screen is Main, encryption_key
\* is set and all_items are the names that list_decrypted_names gives for
\* the directory of the storage handle under that key.
C32_VaultScreenHasKey ==
    OnScreen("Main") =>
        /\ state.encryption_key.some
        /\ storage = passwords_directory_path(config)
        /\ state.all_items =
               ItemsOf(list_decrypted_names(fs[storage], state.encryption_key.v))

\* C33: closing Help returns to the screen that opened it. A step that
\* leaves the Help screen shows the screen whose F1 opened Help and changes
\* nothing else of the session state.
C33_HelpReturns ==
    [][(OnScreen("Help") /\ state'.current_screen # "Help")
           => state' = [state EXCEPT !.current_screen = help_from]]_vars

\* C34: leaving Settings locks the session. A step that leaves the Settings
\* screen for a screen other than Help and the two selection screens (Esc,
\* 'q', or Enter on the directory or timeout field) drops the key, shows the
\* master-password screen with both password inputs empty, makes the typed
\* directory the configured one and points the storage handle at it, and
\* sets create mode exactly when .rpm_config of that directory holds no
\* master_password_hash.
C34_HoldsHash(files, directory) ==
    /\ files[directory].cfg.kind = "toml"
    /\ files[directory].cfg.master_password_hash.some
C34_Leaves ==
    /\ OnScreen("Settings")
    /\ state'.current_screen \notin
           {"Settings", "Help", "ThemeSelection", "LanguageSelection"}
C35_Pending == {t \in Copies : tasks[t] \in {"sleeping", "running"}}
C35_ClearPending ==
    (copy_pc.at = "idle" /\ clipboard.text # "" /\ tasks[clipboard.copy] # "unborn")
        => C35_Pending # {}

\* C36: copy and edit act on the entry shown at the selected row. With the
\* listing loaded and no search typed, row i of Main shows entry i of the
\* listing; for every row, the file name the Ctrl+E and Ctrl+C handlers
\* work on is the id of that row's entry, also when names repeat.
C36_ActsOnSelectedRow ==
    Listing.ok =>
        \A row \in 0..(Len(Listing.val) - 1) :
            SelectedFilename(Listing.val, ItemsOf(Listing), row)
                = Some(Listing.val[row + 1][1])

\* C37: the highlighted row is the row the keys act on, and it is in range.
\* Whenever Main is shown with a filtered list that is not empty,
\* selected_index is less than its length and the list widget selects that
\* row.
C37_SelectionInRange ==
    (OnScreen("Main") /\ view.filtered_items # <<>>) =>
        /\ view.selected_index < Len(view.filtered_items)
        /\ view.list_state = Some(view.selected_index)

\* C38: an index that exists and cannot be read is not shown as an empty
\* unlocked vault. No step from the master-password screen shows Main with a
\* key under which the def file of the opened directory is present and
\* list_decrypted_names fails; and while the held key cannot read a present
\* def file, Enter on the create form does not make run_tui return an error.
C38_Unreadable(files, dir, key) ==
    /\ files[dir].def.kind # "absent"
    /\ ~list_decrypted_names(files[dir], key).ok
C38_UnlockStep ==
    (OnScreen("MasterPassword") /\ state'.current_screen = "Main"
        /\ state'.encryption_key.some)
      => ~C38_Unreadable(fs', storage', state'.encryption_key.v)
C38_CreateStep ==
    (OnScreen("PasswordEntry") /\ ~view.filename.some /\ state.encryption_key.some
        /\ C38_Unreadable(fs, storage, state.encryption_key.v))
      => memory'.returned # "err"
C38_DamagedIndexNotEmptyVault == [][C38_UnlockStep /\ C38_CreateStep]_vars

\* C39: the shutdown protocol completes. Once the session loop has ended
\* (should_quit by a quit key, or an error returned from run_tui), eventually
\* a signal has been sent on the watch channel, the server task has ended
\* and main has returned; and main never returns while the server still
\* runs. This holds whether the server bound its listener before or after
\* the signal was sent.
C39_Done ==
    /\ shutdown.version > 0
    /\ shutdown.server \in {"stopped", "failed"}
    /\ shutdown.main = "returned"
C39_ShutdownCompletes ==
    /\ state.should_quit ~> C39_Done
    /\ [](shutdown.main = "returned" => shutdown.server \in {"stopped", "failed"})

\* C39 witness: run_tui returned an error without sending, main sent the
\* only signal, the server that was waiting saw it and stopped, and main
\* returned.
C39_Witness ==
    /\ memory.returned = "err"
    /\ shutdown.version = 1 /\ shutdown.seen = 1
    /\ shutdown.server = "stopped"
    /\ shutdown.main = "returned"

====
